---- MODULE Spec2Model ----
(***************************************************************************)
(* Model of the market dashboard's aggregation / resampling core:          *)
(*   - the tick-to-bar aggregator (aggregateTrades, mergeTradeIntoCandles) *)
(*     and the native-bar reducer of useCandles;                           *)
(*   - the per-shape series resamplers of useFuturesAnalytics.             *)
(*                                                                         *)
(* Numbers.  JavaScript numbers are modelled by integers in fixed point:   *)
(*   - a trade quantity / bar volume counts units of 10^-7, so that        *)
(*     toFixed(6) is a real rounding (to a multiple of 10 units);          *)
(*   - prices and times are plain integers (time in ms);                   *)
(*   - a non-finite number (NaN, +-Infinity) is the value NaN below.       *)
(* Arithmetic is exact: binary floating-point representation error is not  *)
(* modelled.                                                               *)
(***************************************************************************)
EXTENDS Integers, Sequences, FiniteSets, TLC

VARIABLES
    isSubMinute,  \* useCandles: TRUE when the stream carries trades, FALSE klines
    bucketSize,   \* useCandles: parseIntervalToMs(interval), > 0
    candles,      \* useCandles: the candle series (React state)
    previous,     \* the series the last reducer call received
    trade,        \* the trade the last mergeTradeIntoCandles call received
    kline,        \* the candle the last kline reducer call received
    lastOp,       \* "init" | "trade" | "replay" | "kline"
    runStart,     \* the series before the first of the current run of klines
                  \* that share one time
    delivered,    \* how many stream messages have been delivered
    batch,        \* loadInitialData: the trades of the aggTrades response
    batchPc,      \* "idle" | "start" | "done": where loadInitialData stands
    aggregated,   \* aggregateTrades(batch, bucketSize), once computed
    merged,       \* the first pos trades of batch folded by mergeTradeIntoCandles
    mergedPrev,   \* merged before the last fold step
    pos,          \* how many trades of batch the fold has consumed
    shape,        \* which resampler runs: "level" | "ratio" | "volume" | "basis"
    series,       \* the series handed to the resampler
    targetIntervalMs, \* the target interval handed to the resampler
    resampled,    \* what the resampler returned
    delta,        \* computeDelta of the resampled level series, once computed
    resamplePc,   \* "idle" | "start" | "done" | "delta"
    text,         \* the interval / period string handed to the parsers
    intervalMs,   \* parseIntervalToMs(text), once computed
    periodMs,     \* parsePeriodToMs(text), once computed
    parsePc,      \* "idle" | "start" | "interval" | "period" | "done"
    call,         \* createSampleAnalytics: the arguments and the two clock readings
    bundleA,      \* what the call at the first clock reading returned
    bundleB,      \* what the call at the second clock reading returned
    samplePc,     \* "idle" | "start" | "first" | "done"
    hookSymbol,   \* useFuturesAnalytics: the symbol of the current render
    hookPeriod,   \* useFuturesAnalytics: options.period of the current render
    refreshMs,    \* useFuturesAnalytics: options.refreshMs (0: none)
    state,        \* useFuturesAnalytics: the FetchState
    effect,       \* which run of the effect is live (0: not yet run); the runs
                  \* before it have cancelled = true
    loads,        \* the load() calls awaiting Promise.all, each with the effect
                  \* run, symbol and period of its closure
    started,      \* how many load() calls have started
    changes,      \* how many times the symbol or the period has changed
    event,        \* what the last step of the hook did, and for which load
    lastGood,     \* the last live bundle the current effect run published
    candleInterval, \* useCandles: the interval string of the render
    request,      \* loadInitialData: "unstarted" | "refused" | "aggTrades" |
                  \* "klines" | "settled"
    socket,       \* socketRef: "none" | "aggTrade" | "kline"
    logged,       \* what useCandles has passed to console.error, in order
    candleRun,    \* useCandles: which run of its effects is live (1: the mount);
                  \* the runs before it have active = false
    staleRequests, \* the loadInitialData requests of earlier runs still awaited
    candleEvent,  \* what the last settled loadInitialData request did, for which
                  \* run it was sent and during which run it settled
    heap,         \* the arrays a transform call can reach, by reference
    transform,    \* which transform is called on the heap
    inputRef,     \* the reference the call receives as its input sequence
    inputBefore,  \* what the input array held when the call was made
    resultRef,    \* the reference the call returned
    framePc,      \* "idle" | "start" | "done"
    selectedSymbol, \* App: the symbol of the render
    ticker,       \* useMiniTicker: the ticker it holds, NoTicker for null
    tickerRequests, \* the loadTicker requests awaited, each with the symbol it
                  \* asked for and the active flag of its effect run
    tickerSocket, \* the symbol whose miniTicker stream is open
    alertsBySymbol, \* AlertPanel: the alert rules of every symbol, in order
    nextAlert,    \* the id the next alert gets
    switches,     \* how many times the selected symbol has changed
    received,     \* how many miniTicker messages have been delivered
    alertEvent    \* what the last run of the trigger effect did: for which
                  \* symbol, with the price of which symbol, which alerts fired

streamVars == <<candles, previous, trade, kline, lastOp, runStart, delivered>>
batchVars == <<batch, batchPc, aggregated, merged, mergedPrev, pos>>
resampleVars == <<shape, series, targetIntervalMs, resampled, delta, resamplePc>>
parseVars == <<text, intervalMs, periodMs, parsePc>>
\* The variables of the parts of the program only the later specifications
\* move.
sampleVars == <<call, bundleA, bundleB, samplePc>>
hookVars == <<hookSymbol, hookPeriod, refreshMs, state, effect, loads, started, changes,
              event, lastGood>>
mountVars == <<candleInterval, request, socket, logged, candleRun, staleRequests,
               candleEvent>>
frameVars == <<heap, transform, inputRef, inputBefore, resultRef, framePc>>
alertVars == <<selectedSymbol, ticker, tickerRequests, tickerSocket, alertsBySymbol,
               nextAlert, switches, received, alertEvent>>
extVars == <<parseVars, sampleVars, hookVars, mountVars, frameVars, alertVars>>
coreVars == <<isSubMinute, bucketSize, streamVars, batchVars, resampleVars>>
vars == <<isSubMinute, bucketSize, streamVars, batchVars, resampleVars, extVars>>

ResampleIdle ==
    /\ shape = "level"
    /\ series = <<>>
    /\ targetIntervalMs = 0
    /\ resampled = <<>>
    /\ delta = <<>>
    /\ resamplePc = "idle"

ParseIdle ==
    /\ text = <<>>
    /\ intervalMs = 0
    /\ periodMs = 0
    /\ parsePc = "idle"

NoBundle ==
    [openInterest |-> <<>>, openInterestDelta |-> <<>>, topAccountsRatio |-> <<>>,
     topPositionsRatio |-> <<>>, globalAccountsRatio |-> <<>>, takerVolume |-> <<>>,
     basis |-> <<>>]

SampleIdle ==
    /\ call = [symbol |-> <<>>, limit |-> 0, intervalMs |-> 0, nowA |-> 0, nowB |-> 0]
    /\ bundleA = NoBundle
    /\ bundleB = NoBundle
    /\ samplePc = "idle"

NoError == "null"

HookIdle ==
    /\ hookSymbol = <<>>
    /\ hookPeriod = <<>>
    /\ refreshMs = 0
    /\ state = [data |-> NoBundle, loading |-> FALSE, error |-> NoError, usingSample |-> FALSE]
    /\ effect = 0
    /\ loads = {}
    /\ started = 0
    /\ changes = 0
    /\ event = [kind |-> "idle", load |-> 0, cause |-> "none"]
    /\ lastGood = [has |-> FALSE, data |-> NoBundle]

NoCandleEvent == [kind |-> "none", run |-> 0, during |-> 0]

MountIdle ==
    /\ candleInterval = <<>>
    /\ request = "unstarted"
    /\ socket = "none"
    /\ logged = <<>>
    /\ candleRun = 1
    /\ staleRequests = {}
    /\ candleEvent = NoCandleEvent

FrameIdle ==
    /\ heap = <<>>
    /\ transform = "none"
    /\ inputRef = 0
    /\ inputBefore = <<>>
    /\ resultRef = 0
    /\ framePc = "idle"

NoTicker == [symbol |-> "none", lastPrice |-> 0]

NoAlertEvent == [symbol |-> "none", priceOf |-> "none", fired |-> {}]

AlertIdle ==
    /\ selectedSymbol = "none"
    /\ ticker = NoTicker
    /\ tickerRequests = {}
    /\ tickerSocket = "none"
    /\ alertsBySymbol = <<>>
    /\ nextAlert = 0
    /\ switches = 0
    /\ received = 0
    /\ alertEvent = NoAlertEvent

\* Every part but the named one is idle.
ExtensionIdleBut(part) ==
    /\ IF part = "parse" THEN TRUE ELSE ParseIdle
    /\ IF part = "sample" THEN TRUE ELSE SampleIdle
    /\ IF part = "hook" THEN TRUE ELSE HookIdle
    /\ MountIdle
    /\ FrameIdle
    /\ AlertIdle

ExtensionIdle == ExtensionIdleBut("none")

(***************************************************************************)
(* Bounds of the model.                                                    *)
(***************************************************************************)
\* The window size.  The source has MAX_LENGTH = 500 (part_003 line 4); the
\* model keeps the window, scaled down so that truncation happens.
MAX_LENGTH == 2
\* How many trades / klines one behaviour delivers.
MaxTicks == 4
\* How many trades an aggTrades response carries.
MaxBatch == 3

\* A non-finite number.
NaN == -999999

IsFinite(x) == x # NaN

Max(a, b) == IF a >= b THEN a ELSE b
Min(a, b) == IF a <= b THEN a ELSE b

\* Number(x.toFixed(6)) on a quantity counted in units of 10^-7: the nearest
\* multiple of 10 units, a tie going away from zero.
toFixed6(x) ==
    IF x >= 0 THEN ((x + 5) \div 10) * 10
    ELSE -((((-x) + 5) \div 10) * 10)

\* BucketTime with Math.round in place of Math.floor.
BucketTimeRounded(time, size) == ((2 * time + size) \div (2 * size)) * size

\* Math.floor(time / bucketSize) * bucketSize
BucketTime(time, size) == (time \div size) * size

\* Array.prototype.sort((a, b) => a.time - b.time): stable, ascending by time.
RECURSIVE InsertByTime(_, _)
InsertByTime(sorted, item) ==
    IF sorted = <<>> THEN <<item>>
    ELSE IF sorted[Len(sorted)].time <= item.time THEN Append(sorted, item)
    ELSE Append(InsertByTime(SubSeq(sorted, 1, Len(sorted) - 1), item),
                sorted[Len(sorted)])

RECURSIVE SortByTime(_)
SortByTime(list) ==
    IF list = <<>> THEN <<>>
    ELSE InsertByTime(SortByTime(SubSeq(list, 1, Len(list) - 1)), list[Len(list)])

\* list.slice(0, n): the first n are kept.
SliceFirst(list, n) == IF Len(list) <= n THEN list ELSE SubSeq(list, 1, n)

\* list.slice(-n)
SliceLast(list, n) ==
    IF Len(list) <= n THEN list ELSE SubSeq(list, Len(list) - n + 1, Len(list))

\* list.findIndex((item) => item.time === time), 0 for "not found" (-1 in JS)
RECURSIVE FindIndexFrom(_, _, _)
FindIndexFrom(list, time, i) ==
    IF i > Len(list) THEN 0
    ELSE IF list[i].time = time THEN i
    ELSE FindIndexFrom(list, time, i + 1)

FindIndex(list, time) == FindIndexFrom(list, time, 1)

\* ValidTrade checking the price alone.
ValidTradePriceOnly(t) == IsFinite(t.price)

ValidTrade(t) == IsFinite(t.price) /\ IsFinite(t.quantity) /\ IsFinite(t.time)

\* The candle a trade opens (the else branches of both aggregators).
NewCandle(t, bucketTime) ==
    [time |-> bucketTime, open |-> t.price, high |-> t.price, low |-> t.price,
     close |-> t.price, volume |-> toFixed6(t.quantity)]

\* UpdatedCandle with a replayed trade deduplicated: the volume is not
\* accumulated.
UpdatedCandleDeduplicated(candle, t, bucketTime) ==
    [time |-> bucketTime, open |-> candle.open,
     high |-> Max(candle.high, t.price), low |-> Min(candle.low, t.price),
     close |-> t.price, volume |-> candle.volume]

\* UpdatedCandle that leaves close at the bucket's first price.
UpdatedCandleKeepClose(candle, t, bucketTime) ==
    [time |-> bucketTime, open |-> candle.open,
     high |-> Max(candle.high, t.price), low |-> Min(candle.low, t.price),
     close |-> candle.close, volume |-> toFixed6(candle.volume + t.quantity)]

\* The candle of a bucket after one more trade (the if branches).
UpdatedCandle(candle, t, bucketTime) ==
    [time |-> bucketTime, open |-> candle.open,
     high |-> Max(candle.high, t.price), low |-> Min(candle.low, t.price),
     close |-> t.price, volume |-> toFixed6(candle.volume + t.quantity)]

\* The forEach callback that rounds the volume of a new candle only: the
\* volume of an existing one is summed as it is.
AggregateStepUnrounded(map, t, size) ==
    IF ~ValidTrade(t) THEN map
    ELSE LET bucketTime == BucketTime(t.time, size)
             index == FindIndex(map, bucketTime)
         IN IF index > 0
            THEN [map EXCEPT ![index] =
                     [UpdatedCandle(map[index], t, bucketTime)
                         EXCEPT !.volume = map[index].volume + t.quantity]]
            ELSE Append(map, NewCandle(t, bucketTime))

\* The forEach callback of aggregateTrades; map is the Map's values in
\* insertion order (Map.set on an existing key keeps its position).
AggregateStep(map, t, size) ==
    IF ~ValidTrade(t) THEN map
    ELSE LET bucketTime == BucketTime(t.time, size)
             index == FindIndex(map, bucketTime)
         IN IF index > 0
            THEN [map EXCEPT ![index] = UpdatedCandle(map[index], t, bucketTime)]
            ELSE Append(map, NewCandle(t, bucketTime))

RECURSIVE AggregateMap(_, _)
AggregateMap(list, size) ==
    IF list = <<>> THEN <<>>
    ELSE AggregateStep(AggregateMap(SubSeq(list, 1, Len(list) - 1), size),
                       list[Len(list)], size)

\* aggregateTrades without the sort: the Map's insertion order is returned.
aggregateTradesInsertionOrder(list, size) ==
    SliceLast(AggregateMap(list, size), MAX_LENGTH)

aggregateTrades(list, size) ==
    SliceLast(SortByTime(AggregateMap(list, size)), MAX_LENGTH)

\* mergeTradeIntoCandles without the sort: the new candle stays where push
\* put it.
mergeTradeAppendOnly(prev, t, size) ==
    IF ~ValidTrade(t) THEN prev
    ELSE LET bucketTime == BucketTime(t.time, size)
             index == FindIndex(prev, bucketTime)
             next == IF index > 0
                     THEN [prev EXCEPT ![index] = UpdatedCandle(prev[index], t, bucketTime)]
                     ELSE Append(prev, NewCandle(t, bucketTime))
         IN SliceLast(next, MAX_LENGTH)

mergeTradeIntoCandles(prev, t, size) ==
    IF ~ValidTrade(t) THEN prev
    ELSE LET bucketTime == BucketTime(t.time, size)
             index == FindIndex(prev, bucketTime)
             next == IF index > 0
                     THEN [prev EXCEPT ![index] = UpdatedCandle(prev[index], t, bucketTime)]
                     ELSE Append(prev, NewCandle(t, bucketTime))
         IN SliceLast(SortByTime(next), MAX_LENGTH)

\* KlineReducer without the filter: an existing candle of the same time stays.
KlineReducerNoFilter(prev, candle) ==
    SliceLast(SortByTime(Append(prev, candle)), MAX_LENGTH)

\* a !== b on numbers: NaN differs from every number, itself included.
StrictNotEqual(a, b) == ~IsFinite(a) \/ ~IsFinite(b) \/ a # b

\* The list the kline reducer has before it sorts: prev.filter(...), then
\* list.push(candle).
KlineList(prev, candle) ==
    Append(SelectSeq(prev, LAMBDA item : StrictNotEqual(item.time, candle.time)), candle)

\* The setCandles reducer of the kline branch of ws.onmessage.
KlineReducer(prev, candle) ==
    SliceLast(SortByTime(KlineList(prev, candle)), MAX_LENGTH)

(***************************************************************************)
(* The series resamplers of useFuturesAnalytics.                           *)
(*                                                                         *)
(* A primitive field (openInterest, long, buyVolume, markPrice, ...)       *)
(* counts units of 1 / Grid, where Grid is a common multiple of every time *)
(* span of the model and the inputs are multiples of Grid: every           *)
(* interpolated value current + (next - current) * ratio is then an        *)
(* integer number of units, computed exactly.  The interpolation ratio     *)
(* (step * targetIntervalMs) / span is carried as numerator and            *)
(* denominator.  A ratio field counts units of 10^-4, so that toFixed(3)   *)
(* rounds to a multiple of 10; one price cent is Cent units, so that       *)
(* toFixed(2) rounds to a multiple of Cent.                                *)
(***************************************************************************)
\* The greatest time of a resampler input.
MaxTime == 3
\* How many points a resampler input has.
MaxPoints == 3

RECURSIVE Gcd(_, _)
Gcd(a, b) == IF b = 0 THEN a ELSE Gcd(b, a % b)

RECURSIVE LcmUpTo(_)
LcmUpTo(n) == IF n <= 1 THEN 1 ELSE (LcmUpTo(n - 1) * n) \div Gcd(LcmUpTo(n - 1), n)

Grid == LcmUpTo(MaxTime)
Cent == 2 * Grid

Abs(x) == IF x < 0 THEN -x ELSE x

\* a / b rounded to the nearest integer, a tie going away from zero (what
\* toFixed does with the digit it keeps last).
RoundDiv(a, b) ==
    LET q == (2 * Abs(a) + Abs(b)) \div (2 * Abs(b))
    IN IF (a < 0) # (b < 0) THEN -q ELSE q

\* Number((a / b).toFixed(3)), in units of 10^-4
toFixed3Quotient(a, b) == 10 * RoundDiv(1000 * a, b)

\* Number(x.toFixed(2)) on a price counted in units of 1 / Grid
toFixed2(x) == Cent * RoundDiv(x, Cent)

\* Lerp with the end points swapped: the ratio is measured from next.
LerpFromNext(current, next, num, den) == next + ((current - next) * num) \div den

\* current + (next - current) * ratio, with ratio = num / den (reduced to
\* lowest terms, which leaves the value as it is and the product small)
Lerp(current, next, num, den) ==
    LET g == Gcd(num, den)
    IN current + ((next - current) * (num \div g)) \div (den \div g)

\* resampleSeries with the gap test and the step loop both inclusive
\* (span >= target, step <= steps).
InsertCountInclusive(span, target) ==
    IF span < target THEN 0 ELSE span \div target

\* How many points resampleSeries inserts between two points span apart:
\* none unless span > target, else the steps 1 .. floor(span / target) - 1.
InsertCount(span, target) ==
    IF ~(span > target) THEN 0 ELSE (span \div target) - 1

\* The interpolate callbacks of the four resamplers.  The ratio the ratio
\* and volume callbacks compute (long / short, unrounded) is carried
\* truncated to 10^-4: the map of the resampler recomputes the field.
Interpolate(kind, current, next, num, den, time) ==
    CASE kind = "level" ->
           [time |-> time,
            openInterest |-> Lerp(current.openInterest, next.openInterest, num, den),
            openInterestValue |->
                Lerp(current.openInterestValue, next.openInterestValue, num, den)]
      [] kind = "ratio" ->
           LET long == Lerp(current.long, next.long, num, den)
               short == Lerp(current.short, next.short, num, den)
           IN [time |-> time, long |-> long, short |-> short,
               ratio |-> IF short = 0 THEN 0 ELSE (10000 * long) \div short]
      [] kind = "volume" ->
           LET buyVolume == Lerp(current.buyVolume, next.buyVolume, num, den)
               sellVolume == Lerp(current.sellVolume, next.sellVolume, num, den)
           IN [time |-> time, buyVolume |-> buyVolume, sellVolume |-> sellVolume,
               ratio |-> IF sellVolume = 0 THEN 0 ELSE (10000 * buyVolume) \div sellVolume]
      [] kind = "basis" ->
           LET markPrice == Lerp(current.markPrice, next.markPrice, num, den)
               indexPrice == Lerp(current.indexPrice, next.indexPrice, num, den)
           IN [time |-> time, markPrice |-> markPrice, indexPrice |-> indexPrice,
               basis |-> markPrice - indexPrice]

\* The inner loop begun at step = 0: current is pushed once more, as an
\* interpolated point of ratio 0.
InsertedFromZero(kind, current, next, target) ==
    LET span == next.time - current.time
    IN [s \in 1..(IF span > target THEN span \div target ELSE 0) |->
           Interpolate(kind, current, next, (s - 1) * target, span,
                       current.time + (s - 1) * target)]

\* The points the inner loop pushes between current and next.
Inserted(kind, current, next, target) ==
    LET span == next.time - current.time
    IN [step \in 1..InsertCount(span, target) |->
           Interpolate(kind, current, next, step * target, span,
                       current.time + step * target)]

RECURSIVE ResampleFrom(_, _, _, _)
\* The outer loop without its inner loop: the points from index i on, and
\* nothing between them.
ResampleFromNoInserts(kind, sorted, target, i) == SubSeq(sorted, i, Len(sorted))

\* The outer loop of resampleSeries from index i on.
ResampleFrom(kind, sorted, target, i) ==
    IF i > Len(sorted) THEN <<>>
    ELSE IF i = Len(sorted) THEN <<sorted[i]>>
    ELSE <<sorted[i]>> \o Inserted(kind, sorted[i], sorted[i + 1], target)
           \o ResampleFrom(kind, sorted, target, i + 1)

\* resampleSeries whose early return covers the empty series only: a series
\* with an invalid target interval is sorted like any other.
resampleSeriesSortedCopy(list, target, kind) ==
    IF list = <<>> THEN list
    ELSE IF ~IsFinite(target) \/ target <= 0 THEN SortByTime(list)
    ELSE SortByTime(ResampleFrom(kind, SortByTime(list), target, 1))

resampleSeries(list, target, kind) ==
    IF list = <<>> \/ ~IsFinite(target) \/ target <= 0 THEN list
    ELSE SortByTime(ResampleFrom(kind, SortByTime(list), target, 1))

\* computeDelta that reports the magnitude of a fall (decrease >= 0).
computeDeltaMagnitude(list) ==
    [i \in 1..Len(list) |->
        IF i = 1 THEN [time |-> list[i].time, increase |-> 0, decrease |-> 0]
        ELSE LET diff == list[i].openInterest - list[i - 1].openInterest
             IN [time |-> list[i].time,
                 increase |-> IF diff > 0 THEN diff ELSE 0,
                 decrease |-> IF diff < 0 THEN -diff ELSE 0]]

\* computeDelta: the first point has no predecessor; every other carries the
\* signed difference to its predecessor, a rise in increase, a fall (a
\* negative number) in decrease.
computeDelta(list) ==
    [i \in 1..Len(list) |->
        IF i = 1 THEN [time |-> list[i].time, increase |-> 0, decrease |-> 0]
        ELSE LET diff == list[i].openInterest - list[i - 1].openInterest
             IN [time |-> list[i].time,
                 increase |-> IF diff > 0 THEN diff ELSE 0,
                 decrease |-> IF diff < 0 THEN diff ELSE 0]]

resampleOpenInterestSeries(list, target) ==
    LET out == resampleSeries(list, target, "level")
    IN [i \in 1..Len(out) |->
           [time |-> out[i].time, openInterest |-> out[i].openInterest,
            openInterestValue |-> out[i].openInterestValue]]

resampleLongShortSeries(list, target) ==
    LET out == resampleSeries(list, target, "ratio")
    IN [i \in 1..Len(out) |->
           [time |-> out[i].time, long |-> out[i].long, short |-> out[i].short,
            ratio |-> IF out[i].short = 0 THEN 0
                      ELSE toFixed3Quotient(out[i].long, out[i].short)]]

\* resampleTakerVolumeSeries that keeps the ratio each point carries.
resampleTakerVolumeSeriesKeepRatio(list, target) == resampleSeries(list, target, "volume")

resampleTakerVolumeSeries(list, target) ==
    LET out == resampleSeries(list, target, "volume")
    IN [i \in 1..Len(out) |->
           [time |-> out[i].time, buyVolume |-> out[i].buyVolume,
            sellVolume |-> out[i].sellVolume,
            ratio |-> IF out[i].sellVolume = 0 THEN 0
                      ELSE toFixed3Quotient(out[i].buyVolume, out[i].sellVolume)]]

resampleBasisSeries(list, target) ==
    LET out == resampleSeries(list, target, "basis")
    IN [i \in 1..Len(out) |->
           [time |-> out[i].time, markPrice |-> out[i].markPrice,
            indexPrice |-> out[i].indexPrice,
            basis |-> toFixed2(out[i].markPrice - out[i].indexPrice)]]

(***************************************************************************)
(* The inputs the stream delivers.                                         *)
(***************************************************************************)
BucketSizes == {2, 3}
TradeTimes == {0, 1, 2, 4, 6}
Prices == {1, 2}
\* In units of 10^-7: 0.0000004 and 0.0000010.
Quantities == {4, 10}

ValidTrades ==
    {[price |-> p, quantity |-> q, time |-> t] :
        p \in Prices, q \in Quantities, t \in TradeTimes}

InvalidTrades ==
    {[price |-> NaN, quantity |-> 10, time |-> 2],
     [price |-> 1, quantity |-> NaN, time |-> 2],
     [price |-> 1, quantity |-> 10, time |-> NaN]}

Trades == ValidTrades \cup InvalidTrades

NoTrade == [price |-> NaN, quantity |-> NaN, time |-> NaN]

KlineTimes == {0, 2, 4, 6}

Klines ==
    {[time |-> t, open |-> 1, high |-> 2, low |-> 1, close |-> c, volume |-> 10] :
        t \in KlineTimes, c \in {1, 2}}
    \cup {[time |-> 2, open |-> NaN, high |-> 2, low |-> 1, close |-> 1, volume |-> 10],
          [time |-> 2, open |-> 1, high |-> 2, low |-> 1, close |-> NaN, volume |-> 10]}

NoKline == [time |-> NaN, open |-> NaN, high |-> NaN, low |-> NaN, close |-> NaN,
            volume |-> NaN]

(***************************************************************************)
(* The stream handlers of useCandles, folded from the empty series.        *)
(***************************************************************************)
Init ==
    /\ isSubMinute \in BOOLEAN
    /\ bucketSize \in BucketSizes
    /\ candles = <<>>
    /\ previous = <<>>
    /\ trade = NoTrade
    /\ kline = NoKline
    /\ lastOp = "init"
    /\ runStart = <<>>
    /\ delivered = 0
    /\ batch = <<>>
    /\ batchPc = "idle"
    /\ aggregated = <<>>
    /\ merged = <<>>
    /\ mergedPrev = <<>>
    /\ pos = 0
    /\ ResampleIdle
    /\ ExtensionIdle

\* setCandles((prev) => mergeTradeIntoCandles(prev, trade, bucketSize))
MergeTick(t) ==
    /\ isSubMinute
    /\ delivered < MaxTicks
    /\ candles' = mergeTradeIntoCandles(candles, t, bucketSize)
    /\ previous' = candles
    /\ trade' = t
    /\ lastOp' = IF lastOp \in {"trade", "replay"} /\ t = trade THEN "replay" ELSE "trade"
    /\ delivered' = delivered + 1
    /\ UNCHANGED <<isSubMinute, bucketSize, kline, runStart, batchVars, resampleVars,
                   extVars>>

\* ws.onmessage, kline branch: a candle whose open or close is not finite is
\* ignored, any other goes through the reducer.
OnKline(k) ==
    /\ ~isSubMinute
    /\ delivered < MaxTicks
    /\ delivered' = delivered + 1
    /\ IF ~IsFinite(k.open) \/ ~IsFinite(k.close)
       THEN UNCHANGED <<candles, previous, kline, lastOp, runStart>>
       ELSE /\ candles' = KlineReducer(candles, k)
            /\ previous' = candles
            /\ kline' = k
            /\ lastOp' = "kline"
            /\ runStart' = IF lastOp = "kline" /\ kline.time = k.time
                            THEN runStart ELSE candles
    /\ UNCHANGED <<isSubMinute, bucketSize, trade, batchVars, resampleVars, extVars>>

Next ==
    \/ \E t \in Trades : MergeTick(t)
    \/ \E k \in Klines : OnKline(k)

Spec == Init /\ [][Next]_vars

(***************************************************************************)
(* The batch path of useCandles: aggregateTrades over the trades of one    *)
(* aggTrades response, and the same trades folded one by one by            *)
(* mergeTradeIntoCandles.                                                  *)
(***************************************************************************)
BatchTimes == {0, 1, 2, 4}

BatchTrades ==
    {[price |-> p, quantity |-> q, time |-> t] :
        p \in Prices, q \in Quantities, t \in BatchTimes}
    \cup InvalidTrades

RECURSIVE SeqsUpTo(_, _)
SeqsUpTo(S, n) ==
    IF n = 0 THEN {<<>>}
    ELSE LET shorter == SeqsUpTo(S, n - 1)
         IN shorter \cup {Append(q, x) : q \in {r \in shorter : Len(r) = n - 1}, x \in S}

\* A quantity of n whole units, in units of 10^-7.
Whole(n) == n * 10000000

\* The scenario batch: (price 100, qty 1, t 1000), (105, 2, 30000), (95, 1, 90000),
\* aggregated with 60000 ms buckets.
ScenarioTrades ==
    <<[price |-> 100, quantity |-> Whole(1), time |-> 1000],
      [price |-> 105, quantity |-> Whole(2), time |-> 30000],
      [price |-> 95, quantity |-> Whole(1), time |-> 90000]>>

InitBatch ==
    /\ \/ batch \in SeqsUpTo(BatchTrades, MaxBatch) /\ bucketSize = 2
       \/ batch = ScenarioTrades /\ bucketSize = 60000
    /\ isSubMinute = TRUE
    /\ batchPc = "start"
    /\ aggregated = <<>>
    /\ merged = <<>>
    /\ mergedPrev = <<>>
    /\ pos = 0
    /\ ResampleIdle
    /\ ExtensionIdle
    /\ candles = <<>>
    /\ previous = <<>>
    /\ trade = NoTrade
    /\ kline = NoKline
    /\ lastOp = "init"
    /\ runStart = <<>>
    /\ delivered = 0

\* loadInitialData, sub-minute branch: setCandles(aggregateTrades(trades, bucketSize))
AggregateBatch ==
    /\ batchPc = "start"
    /\ aggregated' = aggregateTrades(batch, bucketSize)
    /\ candles' = aggregated'
    /\ batchPc' = "done"
    /\ UNCHANGED <<isSubMinute, bucketSize, previous, trade, kline, lastOp, runStart,
                   delivered, batch, merged, mergedPrev, pos, resampleVars, extVars>>

\* One step of folding the same trades by mergeTradeIntoCandles.
MergeNext ==
    /\ batchPc = "done"
    /\ pos < Len(batch)
    /\ merged' = mergeTradeIntoCandles(merged, batch[pos + 1], bucketSize)
    /\ mergedPrev' = merged
    /\ pos' = pos + 1
    /\ UNCHANGED <<isSubMinute, bucketSize, streamVars, batch, batchPc, aggregated,
                   resampleVars, extVars>>

NextBatch == AggregateBatch \/ MergeNext

SpecBatch == InitBatch /\ [][NextBatch]_vars

(***************************************************************************)
(* The resamplers applied to decoded series.  The inputs are what the      *)
(* decoders (parseOpenInterest, parseLongShort, parseTakerVolume,          *)
(* parseBasis) return: in response order, with the derived field each      *)
(* decoder sets.                                                           *)
(***************************************************************************)
Shapes == {"level", "ratio", "volume", "basis"}

ResampleTimes == {0, 1, 2} \cup {MaxTime}

\* NaN, a negative interval, zero and two positive intervals.
Targets == {NaN, -1, 0, 1, 2}

\* parseOpenInterest: both fields as sent.
LevelPoints ==
    {[time |-> t, openInterest |-> v[1] * Grid, openInterestValue |-> v[2] * Grid] :
        t \in ResampleTimes, v \in {<<0, 0>>, <<1, 5>>, <<3, 2>>}}

\* parseLongShort: ratio = short === 0 ? 0 : Number((long / short).toFixed(3))
RatioPoints ==
    {[time |-> t, long |-> v[1] * Grid, short |-> v[2] * Grid,
      ratio |-> IF v[2] = 0 THEN 0 ELSE toFixed3Quotient(v[1], v[2])] :
        t \in ResampleTimes, v \in {<<55, 45>>, <<100, 0>>, <<40, 60>>}}

\* parseTakerVolume: ratio is the buySellRatio the response carries (1.5,
\* 0.3333 and 0 here).
VolumePoints ==
    {[time |-> t, buyVolume |-> v[1] * Grid, sellVolume |-> v[2] * Grid, ratio |-> v[3]] :
        t \in ResampleTimes, v \in {<<3, 2, 15000>>, <<1, 3, 3333>>, <<2, 0, 0>>}}

\* parseBasis: basis = markPrice - indexPrice; prices in steps of half a cent.
BasisPoints ==
    {[time |-> t, markPrice |-> v[1] * Grid, indexPrice |-> v[2] * Grid,
      basis |-> (v[1] - v[2]) * Grid] :
        t \in ResampleTimes, v \in {<<10, 7>>, <<3, 4>>, <<5, 5>>}}

PointsOf(kind) ==
    CASE kind = "level" -> LevelPoints
      [] kind = "ratio" -> RatioPoints
      [] kind = "volume" -> VolumePoints
      [] kind = "basis" -> BasisPoints

\* The scenario: level points (t 0, v 0), (t 120, v 12), resampled with target
\* interval 60.
ScenarioSeries ==
    <<[time |-> 0, openInterest |-> 0, openInterestValue |-> 0],
      [time |-> 120, openInterest |-> 12 * Grid, openInterestValue |-> 0]>>

\* Two level points two and a half target intervals apart, resampled with
\* target interval 2.
UnevenSeries ==
    <<[time |-> 0, openInterest |-> 0, openInterestValue |-> 0],
      [time |-> 5, openInterest |-> 5 * Grid, openInterestValue |-> 0]>>

InitResample ==
    /\ \/ /\ shape \in Shapes
          /\ series \in SeqsUpTo(PointsOf(shape), MaxPoints)
          /\ targetIntervalMs \in Targets
       \/ /\ shape = "level"
          /\ series = ScenarioSeries
          /\ targetIntervalMs = 60
       \/ /\ shape = "level"
          /\ series = UnevenSeries
          /\ targetIntervalMs = 2
    /\ resampled = <<>>
    /\ delta = <<>>
    /\ resamplePc = "start"
    /\ isSubMinute = TRUE
    /\ bucketSize = 2
    /\ candles = <<>>
    /\ previous = <<>>
    /\ trade = NoTrade
    /\ kline = NoKline
    /\ lastOp = "init"
    /\ runStart = <<>>
    /\ delivered = 0
    /\ batch = <<>>
    /\ batchPc = "idle"
    /\ aggregated = <<>>
    /\ merged = <<>>
    /\ mergedPrev = <<>>
    /\ pos = 0
    /\ ExtensionIdle

ResampleDone(result) ==
    /\ resamplePc = "start"
    /\ resampled' = result
    /\ resamplePc' = "done"
    /\ UNCHANGED <<isSubMinute, bucketSize, streamVars, batchVars, shape, series,
                   targetIntervalMs, delta, extVars>>

ResampleOpenInterest ==
    /\ shape = "level"
    /\ ResampleDone(resampleOpenInterestSeries(series, targetIntervalMs))

ResampleLongShort ==
    /\ shape = "ratio"
    /\ ResampleDone(resampleLongShortSeries(series, targetIntervalMs))

ResampleTakerVolume ==
    /\ shape = "volume"
    /\ ResampleDone(resampleTakerVolumeSeries(series, targetIntervalMs))

ResampleBasis ==
    /\ shape = "basis"
    /\ ResampleDone(resampleBasisSeries(series, targetIntervalMs))

\* resampleAnalytics: openInterestDelta is computeDelta of the resampled
\* level series.
ComputeDelta ==
    /\ resamplePc = "done"
    /\ shape = "level"
    /\ delta' = computeDelta(resampled)
    /\ resamplePc' = "delta"
    /\ UNCHANGED <<isSubMinute, bucketSize, streamVars, batchVars, shape, series,
                   targetIntervalMs, resampled, extVars>>

NextResample ==
    \/ ResampleOpenInterest
    \/ ResampleLongShort
    \/ ResampleTakerVolume
    \/ ResampleBasis
    \/ ComputeDelta

SpecResample == InitResample /\ [][NextResample]_vars

(***************************************************************************)
(* The interval parsers.  A string is a sequence of one-character strings. *)
(* Durations are milliseconds; the amounts of the model stay below the     *)
(* point where Number loses integer precision or returns Infinity.         *)
(***************************************************************************)
Digits == <<"0", "1", "2", "3", "4", "5", "6", "7", "8", "9">>

IsDigit(c) == \E d \in 1..Len(Digits) : Digits[d] = c

DigitValue(c) == (CHOOSE d \in 1..Len(Digits) : Digits[d] = c) - 1

\* Number(match[1]) for a string of decimal digits.
RECURSIVE Number(_)
Number(digits) ==
    IF digits = <<>> THEN 0
    ELSE 10 * Number(SubSeq(digits, 1, Len(digits) - 1)) + DigitValue(digits[Len(digits)])

\* value.match(/^(\d+)(units)$/): one or more digits, then one unit
\* character, and nothing else.
Matches(value, units) ==
    /\ Len(value) >= 2
    /\ \A i \in 1..(Len(value) - 1) : IsDigit(value[i])
    /\ value[Len(value)] \in units

\* What the parsers return for "no duration" (null).
Null == -1

\* The switch on the unit.
UnitMs(unit) ==
    CASE unit = "s" -> 1000
      [] unit = "m" -> 60000
      [] unit = "h" -> 60 * 60000
      [] unit = "d" -> 24 * 60 * 60000

\* parseIntervalToMs that lets a zero amount through.
parseIntervalToMsZeroAmount(interval) ==
    IF ~Matches(interval, {"s", "m", "h", "d"}) THEN Null
    ELSE Number(SubSeq(interval, 1, Len(interval) - 1)) * UnitMs(interval[Len(interval)])

parseIntervalToMs(interval) ==
    IF ~Matches(interval, {"s", "m", "h", "d"}) THEN Null
    ELSE LET value == Number(SubSeq(interval, 1, Len(interval) - 1))
         IN IF value <= 0 THEN Null ELSE value * UnitMs(interval[Len(interval)])

parsePeriodToMs(value) ==
    IF ~Matches(value, {"m", "h", "d"}) THEN Null
    ELSE LET amount == Number(SubSeq(value, 1, Len(value) - 1))
         IN IF amount <= 0 THEN Null ELSE amount * UnitMs(value[Len(value)])

\* The characters of the strings handed to the parsers.
Chars == {"0", "1", "2", "s", "m", "h", "d", "w", "H", "-", "+", " "}

\* Every string of at most three of these characters.
Texts == SeqsUpTo(Chars, 3)

StreamIdle ==
    /\ isSubMinute = TRUE
    /\ bucketSize = 2
    /\ candles = <<>>
    /\ previous = <<>>
    /\ trade = NoTrade
    /\ kline = NoKline
    /\ lastOp = "init"
    /\ runStart = <<>>
    /\ delivered = 0

BatchIdle ==
    /\ batch = <<>>
    /\ batchPc = "idle"
    /\ aggregated = <<>>
    /\ merged = <<>>
    /\ mergedPrev = <<>>
    /\ pos = 0

CoreIdle == StreamIdle /\ BatchIdle /\ ResampleIdle

InitParse ==
    /\ text \in Texts
    /\ intervalMs = 0
    /\ periodMs = 0
    /\ parsePc = "start"
    /\ CoreIdle
    /\ ExtensionIdleBut("parse")

\* useCandles: bucketSize = parseIntervalToMs(interval)
ParseInterval ==
    /\ parsePc = "start"
    /\ intervalMs' = parseIntervalToMs(text)
    /\ parsePc' = "interval"
    /\ UNCHANGED <<coreVars, mountVars, frameVars, alertVars, text, periodMs, sampleVars, hookVars>>

\* resolveTargetIntervalMs: parsePeriodToMs(period)
ParsePeriod ==
    /\ parsePc = "interval"
    /\ periodMs' = parsePeriodToMs(text)
    /\ parsePc' = "done"
    /\ UNCHANGED <<coreVars, mountVars, frameVars, alertVars, text, intervalMs, sampleVars, hookVars>>

NextParse == ParseInterval \/ ParsePeriod

SpecParse == InitParse /\ [][NextParse]_vars

(***************************************************************************)
(* createSampleAnalytics.  Date.now() is the parameter now.  A value       *)
(* counts thousandths, so that Number(x.toFixed(2)) is a real rounding (to *)
(* a multiple of 10); openInterestValue, too large for that, counts whole  *)
(* units; a ratio counts units of 10^-4 as in the resamplers.  An angle is *)
(* in milliradians.  Math.sin and Math.cos are replaced by a piecewise     *)
(* linear wave of the same period, sign and range (in thousandths), and    *)
(* divisions are truncated: the values differ from the program's in the    *)
(* low digits, the way they depend on symbol, limit, interval, index and   *)
(* clock does not.                                                         *)
(***************************************************************************)
\* const LIMIT = 48 in the source; the model generates fewer points.
LIMIT == 2

DEFAULT_SAMPLE_INTERVAL_MS == 3600000

Sin(x) ==
    LET r == x % 6283
    IN IF r <= 1570 THEN (r * 1000) \div 1571
       ELSE IF r <= 4712 THEN ((3142 - r) * 1000) \div 1571
       ELSE ((r - 6283) * 1000) \div 1571

Cos(x) == Sin(x + 1571)

\* Number(x.toFixed(2)) on a value counted in thousandths
toFixed2Milli(x) == 10 * RoundDiv(x, 10)

\* symbol.split('').reduce((acc, char, index) => acc + char.charCodeAt(0) * (index + 1), 0);
\* a symbol is the sequence of its character codes.
RECURSIVE Factor(_)
Factor(symbol) ==
    IF symbol = <<>> THEN 0
    ELSE Factor(SubSeq(symbol, 1, Len(symbol) - 1)) + symbol[Len(symbol)] * Len(symbol)

EffectiveInterval(interval) ==
    IF IsFinite(interval) /\ interval > 0 THEN interval ELSE DEFAULT_SAMPLE_INTERVAL_MS

\* scaledIndex = (i * effectiveInterval) / DEFAULT_SAMPLE_INTERVAL_MS, in thousandths
ScaledIndex(i, interval) == (i * EffectiveInterval(interval)) \div 3600

\* openInterestLevel after the loop body of index i (unrounded, carried to
\* the next index); index -1 is the value before the loop.
RECURSIVE SampleLevel(_, _, _)
SampleLevel(i, interval, factor) ==
    IF i < 0 THEN (85000 + (factor % 1000)) * 1000
    ELSE LET si == ScaledIndex(i, interval)
             seasonalTenth == Sin((si + factor * 100) \div 3) * 250
             momentum == (si % 12000) * 140 - 400000
         IN Max(60000000, SampleLevel(i - 1, interval, factor) + seasonalTenth + momentum)

SampleOpenInterest(i, interval, factor, time) ==
    LET level == SampleLevel(i, interval, factor)
        si == ScaledIndex(i, interval)
    IN [time |-> time,
        openInterest |-> toFixed2Milli(level),
        openInterestValue |-> ((level \div 100000) * (240000 + Sin(si \div 6))) \div 10]

\* A long/short point from the long percentage.
SampleLongShort(long, time) ==
    [time |-> time,
     long |-> toFixed2Milli(long),
     short |-> toFixed2Milli(100000 - long),
     ratio |-> toFixed3Quotient(long, 100000 - long)]

SampleTakerVolume(i, interval, factor, limit, time) ==
    LET si == ScaledIndex(i, interval)
        buyVolume == 18000000 + Sin((si * 2) \div 5 + factor * 1000) * 3000 + si * 120
        sellVolume == 17000000 + Cos((si * 10) \div 27 + factor * 250) * 2800
                        + Max(0, limit * 1000 - si) * 90
    IN [time |-> time,
        buyVolume |-> toFixed2Milli(Max(0, buyVolume)),
        sellVolume |-> toFixed2Milli(Max(0, sellVolume)),
        ratio |-> toFixed3Quotient(buyVolume \div 1000, Max(1000, sellVolume) \div 1000)]

SampleBasis(i, interval, factor, time) ==
    LET si == ScaledIndex(i, interval)
        basePrice == 25000000 + Sin(si \div 4 + factor * 1000) * 400 + si * 15
        markPrice == basePrice + Sin(si \div 3) * 45
        indexPrice == basePrice - Cos(si \div 5) * 35
    IN [time |-> time,
        markPrice |-> toFixed2Milli(markPrice),
        indexPrice |-> toFixed2Milli(indexPrice),
        basis |-> toFixed2Milli(markPrice - indexPrice)]

\* time = start + i * effectiveInterval, start = now - limit * effectiveInterval;
\* the loop index i of the source is k - 1.
SampleTime(k, limit, interval, now) ==
    (now - limit * EffectiveInterval(interval)) + (k - 1) * EffectiveInterval(interval)

\* createSampleAnalytics with the shape of the series anchored to the clock:
\* scaledIndex is computed from the point's time instead of its index.
createSampleAnalyticsClockShaped(symbol, limit, interval, now) ==
    LET factor == Factor(symbol)
        Shift(k) == (SampleTime(k, limit, interval, now) \div EffectiveInterval(interval)) % 4
        points == [k \in 1..limit |->
                     SampleOpenInterest(Shift(k), interval, factor,
                                        SampleTime(k, limit, interval, now))]
        Ratio(k, long) == SampleLongShort(long, SampleTime(k, limit, interval, now))
    IN [openInterest |-> points,
        openInterestDelta |-> computeDelta(points),
        topAccountsRatio |-> [k \in 1..limit |-> Ratio(k, 55000)],
        topPositionsRatio |-> [k \in 1..limit |-> Ratio(k, 52000)],
        globalAccountsRatio |-> [k \in 1..limit |-> Ratio(k, 49000)],
        takerVolume |-> [k \in 1..limit |->
            SampleTakerVolume(Shift(k), interval, factor, limit,
                              SampleTime(k, limit, interval, now))],
        basis |-> [k \in 1..limit |->
            SampleBasis(Shift(k), interval, factor, SampleTime(k, limit, interval, now))]]

createSampleAnalytics(symbol, limit, interval, now) ==
    LET factor == Factor(symbol)
        Time(k) == SampleTime(k, limit, interval, now)
        Si(k) == ScaledIndex(k - 1, interval)
        points == [k \in 1..limit |-> SampleOpenInterest(k - 1, interval, factor, Time(k))]
    IN [openInterest |-> points,
        openInterestDelta |-> computeDelta(points),
        topAccountsRatio |-> [k \in 1..limit |->
            SampleLongShort(55000 + Sin(Si(k) \div 2 + factor * 1000) * 7, Time(k))],
        topPositionsRatio |-> [k \in 1..limit |->
            SampleLongShort(52000 + Sin((Si(k) * 5) \div 9 + factor * 500) * 9, Time(k))],
        globalAccountsRatio |-> [k \in 1..limit |->
            SampleLongShort(49000 + Sin(Si(k) \div 3 + (factor * 1000) \div 3) * 6, Time(k))],
        takerVolume |-> [k \in 1..limit |->
            SampleTakerVolume(k - 1, interval, factor, limit, Time(k))],
        basis |-> [k \in 1..limit |-> SampleBasis(k - 1, interval, factor, Time(k))]]

(***************************************************************************)
(* The decoders of useFuturesAnalytics.  A response item is a record of    *)
(* the fields the decoder reads; a field the item lacks is Undefined, a    *)
(* field that is no number is NaN.  Level, volume and price fields count   *)
(* the units of the resamplers; a long / short field counts thousandths    *)
(* (1 = 1000, 55.49 % = 55490) and a ratio units of 10^-4.                 *)
(***************************************************************************)
\* The value of a field the response item does not have.
Undefined == -999998

\* Number(x): NaN for undefined and for what is no number.
ToNumber(x) == IF x = Undefined THEN NaN ELSE x

\* a ?? b
Coalesce(a, b) == IF a = Undefined THEN b ELSE a

parseOpenInterest(payload) ==
    SelectSeq([i \in 1..Len(payload) |->
                  [time |-> ToNumber(payload[i].timestamp),
                   openInterest |-> ToNumber(payload[i].sumOpenInterest),
                   openInterestValue |-> ToNumber(payload[i].sumOpenInterestValue)]],
              LAMBDA item : IsFinite(item.time) /\ IsFinite(item.openInterest))

normalizePercent(value) ==
    IF ~IsFinite(value) THEN 0
    ELSE LET scaled == IF value <= 1000 THEN value * 100 ELSE value
         IN toFixed2Milli(scaled)

parseLongShort(payload) ==
    SelectSeq([i \in 1..Len(payload) |->
                  LET item == payload[i]
                      longRaw == ToNumber(Coalesce(item.longAccount,
                                                   Coalesce(item.longPosition, 0)))
                      shortRaw == ToNumber(Coalesce(item.shortAccount,
                                                    Coalesce(item.shortPosition, 0)))
                      long == normalizePercent(longRaw)
                      short == normalizePercent(shortRaw)
                  IN [time |-> ToNumber(item.timestamp), long |-> long, short |-> short,
                      ratio |-> IF short = 0 THEN 0 ELSE toFixed3Quotient(long, short)]],
              LAMBDA item : IsFinite(item.time) /\ IsFinite(item.long) /\ IsFinite(item.short))

parseTakerVolume(payload) ==
    SelectSeq([i \in 1..Len(payload) |->
                  [time |-> ToNumber(payload[i].timestamp),
                   buyVolume |-> ToNumber(Coalesce(payload[i].buyVol, 0)),
                   sellVolume |-> ToNumber(Coalesce(payload[i].sellVol, 0)),
                   ratio |-> ToNumber(Coalesce(payload[i].buySellRatio, 0))]],
              LAMBDA item : IsFinite(item.time))

parseBasis(payload) ==
    SelectSeq([i \in 1..Len(payload) |->
                  LET markPrice == ToNumber(Coalesce(payload[i].markPrice, 0))
                      indexPrice == ToNumber(Coalesce(payload[i].indexPrice, 0))
                  IN [time |-> ToNumber(Coalesce(payload[i].time,
                                                 Coalesce(payload[i].timestamp, 0))),
                      markPrice |-> markPrice, indexPrice |-> indexPrice,
                      basis |-> markPrice - indexPrice]],
              LAMBDA item : IsFinite(item.time))

SeriesNames ==
    {"openInterest", "openInterestDelta", "topAccountsRatio", "topPositionsRatio",
     "globalAccountsRatio", "takerVolume", "basis"}

\* resolveTargetIntervalMs that answers a period without duration by one
\* minute.
resolveTargetIntervalMsMinute(period) ==
    IF parsePeriodToMs(period) = Null THEN 60000 ELSE parsePeriodToMs(period)

resolveTargetIntervalMs(period) ==
    IF parsePeriodToMs(period) = Null THEN DEFAULT_SAMPLE_INTERVAL_MS
    ELSE parsePeriodToMs(period)

DEFAULT_PERIOD == <<"1", "h">>

REMOTE_PERIODS ==
    {<<"5", "m">>, <<"1", "5", "m">>, <<"3", "0", "m">>, <<"1", "h">>, <<"2", "h">>,
     <<"4", "h">>, <<"6", "h">>, <<"1", "2", "h">>, <<"1", "d">>}

resolveRemotePeriod(period) ==
    IF period = <<"1", "m">> \/ period = <<"2", "m">> THEN <<"5", "m">>
    ELSE IF period \in REMOTE_PERIODS THEN period
    ELSE DEFAULT_PERIOD

\* mergeAnalytics without the fallback: a series overrides lacks is empty.
mergeAnalyticsNoFallback(overrides, symbol, interval, now) ==
    [name \in SeriesNames |-> IF name \in DOMAIN overrides THEN overrides[name] ELSE <<>>]

\* mergeAnalytics; overrides is a function on the names of the series it has.
mergeAnalytics(overrides, symbol, interval, now) ==
    LET fallback == createSampleAnalytics(symbol, LIMIT, interval, now)
    IN [name \in SeriesNames |->
           IF name \in DOMAIN overrides THEN overrides[name] ELSE fallback[name]]

\* resampleAnalytics that passes the delta series of the decoded bundle on
\* instead of recomputing it.
resampleAnalyticsStaleDelta(data, target) ==
    [openInterest |-> resampleOpenInterestSeries(data.openInterest, target),
     openInterestDelta |-> data.openInterestDelta,
     topAccountsRatio |-> resampleLongShortSeries(data.topAccountsRatio, target),
     topPositionsRatio |-> resampleLongShortSeries(data.topPositionsRatio, target),
     globalAccountsRatio |-> resampleLongShortSeries(data.globalAccountsRatio, target),
     takerVolume |-> resampleTakerVolumeSeries(data.takerVolume, target),
     basis |-> resampleBasisSeries(data.basis, target)]

resampleAnalytics(data, target) ==
    LET openInterest == resampleOpenInterestSeries(data.openInterest, target)
    IN [openInterest |-> openInterest,
        openInterestDelta |-> computeDelta(openInterest),
        topAccountsRatio |-> resampleLongShortSeries(data.topAccountsRatio, target),
        topPositionsRatio |-> resampleLongShortSeries(data.topPositionsRatio, target),
        globalAccountsRatio |-> resampleLongShortSeries(data.globalAccountsRatio, target),
        takerVolume |-> resampleTakerVolumeSeries(data.takerVolume, target),
        basis |-> resampleBasisSeries(data.basis, target)]

\* "BTC", "ETH" and the empty symbol, as character codes.
Symbols == {<<66, 84, 67>>, <<69, 84, 72>>, <<>>}

\* 1m, 5m, 1h and 1d in milliseconds, and three intervals the generator
\* replaces by the default.
SampleIntervals == {60000, 300000, 3600000, 86400000, NaN, 0, -60000}

\* Clock readings.
Nows == {0, 1000, 7200000}

InitSample ==
    /\ call \in [symbol : Symbols, limit : 0..LIMIT, intervalMs : SampleIntervals,
                  nowA : Nows, nowB : Nows]
    /\ bundleA = NoBundle
    /\ bundleB = NoBundle
    /\ samplePc = "start"
    /\ CoreIdle
    /\ ExtensionIdleBut("sample")

SampleFirst ==
    /\ samplePc = "start"
    /\ bundleA' = createSampleAnalytics(call.symbol, call.limit, call.intervalMs, call.nowA)
    /\ samplePc' = "first"
    /\ UNCHANGED <<coreVars, mountVars, frameVars, alertVars, parseVars, hookVars, call, bundleB>>

SampleSecond ==
    /\ samplePc = "first"
    /\ bundleB' = createSampleAnalytics(call.symbol, call.limit, call.intervalMs, call.nowB)
    /\ samplePc' = "done"
    /\ UNCHANGED <<coreVars, mountVars, frameVars, alertVars, parseVars, hookVars, call, bundleA>>

NextSample == SampleFirst \/ SampleSecond

SpecSample == InitSample /\ [][NextSample]_vars

(***************************************************************************)
(* useFuturesAnalytics.  One load() call is two steps: its synchronous     *)
(* start (setState with sample data, the six requests sent) and the        *)
(* settling of Promise.all, resolved or rejected.  Several calls can be    *)
(* awaiting at once (the refresh timer does not wait), and a change of the *)
(* symbol or the period runs the cleanup of the effect (cancelled = true,  *)
(* abort, clearInterval) and then the effect again.                        *)
(***************************************************************************)
\* How many load() calls one behaviour starts.
MaxLoads == 2
\* How many times the symbol or the period changes.
MaxChanges == 1

FetchFailed == "failed to load futures analytics from Binance, showing a sample trend"

\* 1h (native), 1m (served by resampling 5m) and 1s (no period).
Periods == {<<"1", "h">>, <<"1", "m">>, <<"1", "s">>}

HookSymbols == {<<66, 84, 67>>, <<69, 84, 72>>}

HookNows == {0, 1000}

Endpoints ==
    {"openInterest", "topAccounts", "topPositions", "globalAccounts", "takerVolume",
     "basis"}

\* What one request of load() ends with: an array payload, a payload that
\* is no array ("object"), a status that is not ok ("http"), or a rejected
\* fetch ("network", which an abort is too).
Array(items) == [kind |-> "array", items |-> items]
Refused(kind) == [kind |-> kind, items |-> <<>>]

\* The items upstream sends for a period of remoteMs: two per endpoint, one
\* period apart, the level series starting at v.
GoodResponse(remoteMs, v) ==
    [openInterest |-> Array(
        <<[timestamp |-> 0, sumOpenInterest |-> v * Grid,
           sumOpenInterestValue |-> 5 * Grid],
          [timestamp |-> remoteMs, sumOpenInterest |-> (v + 3) * Grid,
           sumOpenInterestValue |-> 7 * Grid]>>),
     topAccounts |-> Array(
        <<[timestamp |-> 0, longAccount |-> 555, longPosition |-> Undefined,
           shortAccount |-> 445, shortPosition |-> Undefined],
          [timestamp |-> remoteMs, longAccount |-> 600, longPosition |-> Undefined,
           shortAccount |-> 400, shortPosition |-> Undefined]>>),
     topPositions |-> Array(
        <<[timestamp |-> 0, longAccount |-> Undefined, longPosition |-> 520,
           shortAccount |-> Undefined, shortPosition |-> 480],
          [timestamp |-> remoteMs, longAccount |-> Undefined, longPosition |-> 1000,
           shortAccount |-> Undefined, shortPosition |-> 0]>>),
     globalAccounts |-> Array(
        <<[timestamp |-> 0, longAccount |-> 55494, longPosition |-> Undefined,
           shortAccount |-> 44506, shortPosition |-> Undefined],
          [timestamp |-> remoteMs, longAccount |-> NaN, longPosition |-> Undefined,
           shortAccount |-> 50000, shortPosition |-> Undefined]>>),
     takerVolume |-> Array(
        <<[timestamp |-> 0, buyVol |-> 3 * Grid, sellVol |-> 2 * Grid,
           buySellRatio |-> 15000],
          [timestamp |-> remoteMs, buyVol |-> Grid, sellVol |-> 3 * Grid,
           buySellRatio |-> 3333]>>),
     basis |-> Array(
        <<[time |-> Undefined, timestamp |-> 0, markPrice |-> 10 * Grid,
           indexPrice |-> 7 * Grid],
          [time |-> remoteMs, timestamp |-> Undefined, markPrice |-> 3 * Grid,
           indexPrice |-> 4 * Grid]>>)]

\* Level items none of which is usable: no timestamp, or a level that is
\* no number.
UnusableLevelItems ==
    <<[timestamp |-> Undefined, sumOpenInterest |-> 2 * Grid,
       sumOpenInterestValue |-> 5 * Grid],
      [timestamp |-> 0, sumOpenInterest |-> NaN, sumOpenInterestValue |-> 5 * Grid]>>

\* What Promise.all can be settled with for a period of remoteMs.
ResponsesFor(remoteMs) ==
    LET good == GoodResponse(remoteMs, 1)
    IN {good,
        [GoodResponse(remoteMs, 4) EXCEPT !.openInterest =
            Array(<<UnusableLevelItems[1]>> \o @.items)],
        [good EXCEPT !.openInterest = Array(UnusableLevelItems)],
        [good EXCEPT !.basis = Refused("object")],
        [good EXCEPT !.openInterest = Refused("http")],
        [good EXCEPT !.takerVolume = Refused("network")]}

\* request: throws unless the status is ok and the payload is an array.
\* The first endpoint that makes Promise.all reject, "none" if none does.
RejectedBy(response) ==
    IF \A e \in Endpoints : response[e].kind = "array" THEN "none"
    ELSE (CHOOSE e \in Endpoints : response[e].kind # "array")

\* load, after Promise.all resolved: the decoded bundle ...
LiveAnalytics(response) ==
    LET openInterest == parseOpenInterest(response.openInterest.items)
    IN [openInterest |-> openInterest,
        openInterestDelta |-> computeDelta(openInterest),
        topAccountsRatio |-> parseLongShort(response.topAccounts.items),
        topPositionsRatio |-> parseLongShort(response.topPositions.items),
        globalAccountsRatio |-> parseLongShort(response.globalAccounts.items),
        takerVolume |-> parseTakerVolume(response.takerVolume.items),
        basis |-> parseBasis(response.basis.items)]

\* ... and finalData.
FinalData(response, per) ==
    IF resolveRemotePeriod(per) = per THEN LiveAnalytics(response)
    ELSE resampleAnalytics(LiveAnalytics(response), resolveTargetIntervalMs(per))

\* The period upstream is asked for, in milliseconds.
RemoteMs(per) == parsePeriodToMs(resolveRemotePeriod(per))

\* The hook after its first render: useState's initialiser has run, the
\* effect has not.
InitHook ==
    /\ hookSymbol = <<66, 84, 67>>
    /\ hookPeriod \in Periods
    /\ refreshMs \in {0, 60000}
    /\ \E now \in HookNows :
          state = [data |-> createSampleAnalytics(hookSymbol, LIMIT,
                                                  resolveTargetIntervalMs(hookPeriod), now),
                   loading |-> TRUE, error |-> NoError, usingSample |-> TRUE]
    /\ effect = 0
    /\ loads = {}
    /\ started = 0
    /\ changes = 0
    /\ event = [kind |-> "mount", load |-> 0, cause |-> "none"]
    /\ lastGood = [has |-> FALSE, data |-> NoBundle]
    /\ CoreIdle
    /\ ExtensionIdleBut("hook")

\* The start of load() in the effect run run, for the symbol sym and the
\* period per of that run's closure.
StartLoad(run, sym, per) ==
    /\ started < MaxLoads
    /\ \E now \in HookNows :
          state' = [data |-> createSampleAnalytics(sym, LIMIT,
                                                   resolveTargetIntervalMs(per), now),
                    loading |-> TRUE, error |-> NoError, usingSample |-> TRUE]
    /\ started' = started + 1
    /\ loads' = loads \cup {[id |-> started + 1, effect |-> run, symbol |-> sym,
                              period |-> per]}
    /\ event' = [kind |-> "start", load |-> started + 1, cause |-> "none"]
    /\ UNCHANGED <<coreVars, mountVars, frameVars, alertVars, parseVars, sampleVars, refreshMs>>

\* The effect of a mounted hook runs for the first time: load().
EffectRun ==
    /\ hookSymbol # <<>>
    /\ effect = 0
    /\ effect' = 1
    /\ StartLoad(1, hookSymbol, hookPeriod)
    /\ UNCHANGED <<hookSymbol, hookPeriod, changes, lastGood>>

\* window.setInterval(load, refreshMs) fires.
Refresh ==
    /\ effect >= 1
    /\ refreshMs > 0
    /\ StartLoad(effect, hookSymbol, hookPeriod)
    /\ UNCHANGED <<hookSymbol, hookPeriod, effect, changes, lastGood>>

\* A render with another symbol or period: the cleanup of the effect, then
\* the effect again.
ChangeParams(sym, per) ==
    /\ effect >= 1
    /\ changes < MaxChanges
    /\ (sym = hookSymbol) # (per = hookPeriod)
    /\ hookSymbol' = sym
    /\ hookPeriod' = per
    /\ effect' = effect + 1
    /\ changes' = changes + 1
    /\ lastGood' = [has |-> FALSE, data |-> NoBundle]
    /\ StartLoad(effect + 1, sym, per)

\* The state of the success path with loading left as load() set it.
LiveStateLoading(data) ==
    [data |-> data, loading |-> TRUE, error |-> NoError, usingSample |-> FALSE]

\* setState({ data: finalData, loading: false, error: null, usingSample: false })
LiveState(data) ==
    [data |-> data, loading |-> FALSE, error |-> NoError, usingSample |-> FALSE]

\* Promise.all resolves: every request returned an array.
LoadResolved(l, response) ==
    /\ l \in loads
    /\ response \in ResponsesFor(RemoteMs(l.period))
    /\ RejectedBy(response) = "none"
    /\ loads' = loads \ {l}
    /\ IF l.effect # effect
       THEN /\ event' = [kind |-> "discarded", load |-> l.id, cause |-> "none"]
            /\ UNCHANGED <<state, lastGood>>
       ELSE /\ state' = LiveState(FinalData(response, l.period))
            /\ lastGood' = [has |-> TRUE, data |-> FinalData(response, l.period)]
            /\ event' = [kind |-> "success", load |-> l.id, cause |-> "none"]
    /\ UNCHANGED <<coreVars, mountVars, frameVars, alertVars, parseVars, sampleVars, hookSymbol, hookPeriod,
                   refreshMs, effect, started, changes>>

\* Promise.all rejects: some request threw.  The catch block.
LoadRejected(l, response) ==
    /\ l \in loads
    /\ response \in ResponsesFor(RemoteMs(l.period))
    /\ RejectedBy(response) # "none"
    /\ loads' = loads \ {l}
    /\ IF l.effect # effect
       THEN /\ event' = [kind |-> "discarded", load |-> l.id,
                         cause |-> response[RejectedBy(response)].kind]
            /\ UNCHANGED state
       ELSE /\ \E now \in HookNows :
                  state' = [data |-> mergeAnalytics(<<>>, l.symbol,
                                                    resolveTargetIntervalMs(l.period), now),
                            loading |-> FALSE, error |-> FetchFailed, usingSample |-> TRUE]
            /\ event' = [kind |-> "failure", load |-> l.id,
                         cause |-> response[RejectedBy(response)].kind]
    /\ UNCHANGED <<coreVars, mountVars, frameVars, alertVars, parseVars, sampleVars, hookSymbol, hookPeriod,
                   refreshMs, effect, started, changes, lastGood>>

NextHook ==
    \/ EffectRun
    \/ Refresh
    \/ \E sym \in HookSymbols, per \in Periods : ChangeParams(sym, per)
    \/ \E l \in loads : \E response \in ResponsesFor(RemoteMs(l.period)) :
          LoadResolved(l, response)
    \/ \E l \in loads : \E response \in ResponsesFor(RemoteMs(l.period)) :
          LoadRejected(l, response)

SpecHook == InitHook /\ [][NextHook]_vars

\* A step in which an awaited load() settles: it leaves loads.  Only
\* LoadResolved and LoadRejected take such a step, and one of them can be
\* taken whenever loads is not empty.
LoadLeaves == loads' # loads /\ loads' \subseteq loads

\* Weak fairness of the settling, written out: a load() is not awaited for
\* ever.
SettleFair == []<>(loads = {}) \/ []<><<LoadLeaves>>_vars

\* The hook under its scheduling: React runs the effect of a render, and
\* every request that is awaited resolves or rejects in the end.  The timer
\* and the renders with other parameters may stop at any time.
SpecHookFair == SpecHook /\ WF_vars(EffectRun) /\ SettleFair

(***************************************************************************)
(* The mount of the dashboard: useCandles with its interval string and     *)
(* useFuturesAnalytics with its period string, each up to the settling of  *)
(* its first load.  The payload of the REST response is modelled after     *)
(* Number() has been applied to its fields.                                *)
(***************************************************************************)
\* 15s (trades), 1m (native bars), 1w (no unit of the parser) and 0m (no
\* positive amount).
Intervals == {<<"1", "5", "s">>, <<"1", "m">>, <<"1", "w">>, <<"0", "m">>}

InvalidInterval == "Invalid interval"

\* What fetch(...aggTrades) can bring: trades, no trade, or a payload that
\* is no array.
AggTradesResponses ==
    {Array(<<[price |-> 2, quantity |-> 10, time |-> 16000],
             [price |-> 1, quantity |-> 4, time |-> 1000]>>),
     Array(<<>>),
     Refused("object")}

\* What fetch(...klines) can bring: rows mapped to candles (in ascending
\* order of time, or not), no row, or a payload that is no array.
KlinesResponses ==
    {Array(<<[time |-> 0, open |-> 1, high |-> 2, low |-> 1, close |-> 2, volume |-> 10],
             [time |-> 60000, open |-> 2, high |-> 2, low |-> 1, close |-> 1,
              volume |-> 4]>>),
     Array(<<[time |-> 60000, open |-> 2, high |-> 2, low |-> 1, close |-> 1,
              volume |-> 4],
             [time |-> 0, open |-> 1, high |-> 2, low |-> 1, close |-> 2, volume |-> 10]>>),
     Array(<<>>),
     Refused("object")}

\* Both hooks after their first render, no effect run yet.
InitSettings ==
    /\ candleInterval \in Intervals
    /\ bucketSize = parseIntervalToMs(candleInterval)
    /\ isSubMinute = (bucketSize # Null /\ bucketSize < 60000)
    /\ candles = <<>>
    /\ request = "unstarted"
    /\ socket = "none"
    /\ logged = <<>>
    /\ candleRun = 1
    /\ staleRequests = {}
    /\ candleEvent = NoCandleEvent
    /\ previous = <<>>
    /\ trade = NoTrade
    /\ kline = NoKline
    /\ lastOp = "init"
    /\ runStart = <<>>
    /\ delivered = 0
    /\ BatchIdle
    /\ ResampleIdle
    /\ ParseIdle
    /\ SampleIdle
    /\ FrameIdle
    /\ AlertIdle
    /\ hookSymbol = <<66, 84, 67>>
    /\ hookPeriod \in Periods
    /\ refreshMs \in {0, 60000}
    /\ \E now \in HookNows :
          state = [data |-> createSampleAnalytics(hookSymbol, LIMIT,
                                                  resolveTargetIntervalMs(hookPeriod), now),
                   loading |-> TRUE, error |-> NoError, usingSample |-> TRUE]
    /\ effect = 0
    /\ loads = {}
    /\ started = 0
    /\ changes = 0
    /\ event = [kind |-> "mount", load |-> 0, cause |-> "none"]
    /\ lastGood = [has |-> FALSE, data |-> NoBundle]

\* The two effects of a mounted useCandles run for the first time:
\* loadInitialData() up to its first await (or its throw, which its catch
\* logs), then the socket.
CandlesEffects ==
    /\ candleInterval # <<>>
    /\ request = "unstarted"
    /\ IF bucketSize = Null
       THEN /\ request' = "refused"
            /\ logged' = Append(logged, InvalidInterval)
            /\ socket' = "none"
       ELSE /\ request' = IF isSubMinute THEN "aggTrades" ELSE "klines"
            /\ socket' = IF isSubMinute THEN "aggTrade" ELSE "kline"
            /\ UNCHANGED logged
    /\ UNCHANGED <<isSubMinute, bucketSize, streamVars, batchVars, resampleVars,
                   candleInterval, candleRun, staleRequests, candleEvent, parseVars,
                   sampleVars, hookVars, frameVars, alertVars>>

\* The response of loadInitialData arrives and response.json() returns.
InitialDataLoaded(response) ==
    /\ request \in {"aggTrades", "klines"}
    /\ response \in (IF request = "aggTrades" THEN AggTradesResponses ELSE KlinesResponses)
    /\ request' = "settled"
    /\ candles' = IF response.kind # "array" THEN candles
                  ELSE IF request = "aggTrades"
                       THEN aggregateTrades(response.items, bucketSize)
                       ELSE response.items
    /\ candleEvent' = [kind |-> IF response.kind = "array" THEN "written" ELSE "ignored",
                       run |-> candleRun, during |-> candleRun]
    /\ UNCHANGED <<isSubMinute, bucketSize, previous, trade, kline, lastOp, runStart,
                   delivered, batchVars, resampleVars, candleInterval, socket, logged,
                   candleRun, staleRequests, parseVars, sampleVars, hookVars, frameVars, alertVars>>

\* fetch or response.json() rejects: the catch of loadInitialData.
InitialDataFailed ==
    /\ request \in {"aggTrades", "klines"}
    /\ request' = "settled"
    /\ logged' = Append(logged, "network")
    /\ candleEvent' = [kind |-> "failed", run |-> candleRun, during |-> candleRun]
    /\ UNCHANGED <<isSubMinute, bucketSize, streamVars, batchVars, resampleVars,
                   candleInterval, socket, candleRun, staleRequests, parseVars,
                   sampleVars, hookVars, frameVars, alertVars>>

NextSettings ==
    \/ CandlesEffects
    \/ \E response \in AggTradesResponses \cup KlinesResponses : InitialDataLoaded(response)
    \/ InitialDataFailed
    \/ EffectRun
    \/ \E l \in loads : \E response \in ResponsesFor(RemoteMs(l.period)) :
          LoadResolved(l, response)
    \/ \E l \in loads : \E response \in ResponsesFor(RemoteMs(l.period)) :
          LoadRejected(l, response)

SpecSettings == InitSettings /\ [][NextSettings]_vars

(***************************************************************************)
(* useCandles from its mount on: the initial load, the stream messages,    *)
(* and renders with another symbol or interval, which run the cleanups     *)
(* (active = false for the load of the run that ends, the socket closed)   *)
(* and then both effects again.  The candle series is not reset by a       *)
(* render.  Times are milliseconds.                                        *)
(***************************************************************************)
\* How many stream messages one behaviour of useCandles delivers.
MaxMessages == 2

\* The intervals of the renders: trades in 15 s buckets, native 1 m bars.
CandleIntervals == {<<"1", "5", "s">>, <<"1", "m">>}

\* if (active): the run that sent the request is still the live one.
\* Without the check every answer is written.
ActiveAlways(run, live) == TRUE

Active(run, live) == run = live

\* What the aggTrade stream can deliver: trades of three buckets, one with a
\* price that is no number.
StreamTrades ==
    {[price |-> 1, quantity |-> 10, time |-> 1000],
     [price |-> 2, quantity |-> 4, time |-> 16000],
     [price |-> 1, quantity |-> 10, time |-> 31000],
     [price |-> NaN, quantity |-> 10, time |-> 1000]}

\* What the kline stream can deliver, after Number / parseFloat: bars of
\* three minutes, the first also with another close (an update of the open
\* bar), one whose open is no number, one whose t is no number.
StreamKlines ==
    {[time |-> t, open |-> 1, high |-> 2, low |-> 1, close |-> 1, volume |-> 10] :
        t \in {0, 60000, 120000}}
    \cup {[time |-> 0, open |-> 1, high |-> 2, low |-> 1, close |-> 2, volume |-> 14],
          [time |-> 60000, open |-> NaN, high |-> 2, low |-> 1, close |-> 1, volume |-> 10],
          [time |-> NaN, open |-> 1, high |-> 2, low |-> 1, close |-> 1, volume |-> 10]}

\* Every order of the elements of list.
OrdersOf(list) ==
    {[i \in 1..Len(list) |-> list[f[i]]] :
        f \in {g \in [1..Len(list) -> 1..Len(list)] :
                  \A i, j \in 1..Len(list) : g[i] = g[j] => i = j}}

\* What list.sort((a, b) => a.time - b.time) can leave: the stable
\* ascending order when every time is a number; with a time that is NaN
\* the comparator is not consistent and the order is up to the engine.
SortOutcomes(list) ==
    IF \A i \in 1..Len(list) : IsFinite(list[i].time) THEN {SortByTime(list)}
    ELSE OrdersOf(list)

\* The list mergeTradeIntoCandles has before it sorts.
MergeList(prev, t, size) ==
    LET bucketTime == BucketTime(t.time, size)
        index == FindIndex(prev, bucketTime)
    IN IF index > 0
       THEN [prev EXCEPT ![index] = UpdatedCandle(prev[index], t, bucketTime)]
       ELSE Append(prev, NewCandle(t, bucketTime))

\* useCandles after its first render with an interval that has a duration.
InitCandles ==
    /\ candleInterval \in CandleIntervals
    /\ bucketSize = parseIntervalToMs(candleInterval)
    /\ isSubMinute = (bucketSize # Null /\ bucketSize < 60000)
    /\ candles = <<>>
    /\ request = "unstarted"
    /\ socket = "none"
    /\ logged = <<>>
    /\ candleRun = 1
    /\ staleRequests = {}
    /\ candleEvent = NoCandleEvent
    /\ previous = <<>>
    /\ trade = NoTrade
    /\ kline = NoKline
    /\ lastOp = "init"
    /\ runStart = <<>>
    /\ delivered = 0
    /\ BatchIdle
    /\ ResampleIdle
    /\ ParseIdle
    /\ SampleIdle
    /\ HookIdle
    /\ FrameIdle
    /\ AlertIdle

\* ws.onmessage, trade branch.
TradeMessage(t) ==
    /\ socket = "aggTrade"
    /\ delivered < MaxMessages
    /\ delivered' = delivered + 1
    /\ IF ~ValidTrade(t) THEN UNCHANGED candles
       ELSE \E sorted \in SortOutcomes(MergeList(candles, t, bucketSize)) :
               candles' = SliceLast(sorted, MAX_LENGTH)
    /\ UNCHANGED <<isSubMinute, bucketSize, previous, trade, kline, lastOp, runStart,
                   batchVars, resampleVars, extVars>>

\* ws.onmessage, kline branch.
KlineMessage(k) ==
    /\ socket = "kline"
    /\ delivered < MaxMessages
    /\ delivered' = delivered + 1
    /\ IF ~IsFinite(k.open) \/ ~IsFinite(k.close) THEN UNCHANGED candles
       ELSE \E sorted \in SortOutcomes(KlineList(candles, k)) :
               candles' = SliceLast(sorted, MAX_LENGTH)
    /\ UNCHANGED <<isSubMinute, bucketSize, previous, trade, kline, lastOp, runStart,
                   batchVars, resampleVars, extVars>>

\* A render with another symbol (next is the interval there was) or
\* another interval: the cleanups of both effects, then both effects.
ChangeInterval(next) ==
    /\ request # "unstarted"
    /\ candleRun <= MaxChanges
    /\ candleRun' = candleRun + 1
    /\ candleInterval' = next
    /\ bucketSize' = parseIntervalToMs(next)
    /\ isSubMinute' = (bucketSize' # Null /\ bucketSize' < 60000)
    /\ staleRequests' =
          IF request \in {"aggTrades", "klines"}
          THEN staleRequests \cup {[kind |-> request, size |-> bucketSize, run |-> candleRun]}
          ELSE staleRequests
    /\ IF bucketSize' = Null
       THEN /\ request' = "refused"
            /\ logged' = Append(logged, InvalidInterval)
            /\ socket' = "none"
       ELSE /\ request' = IF isSubMinute' THEN "aggTrades" ELSE "klines"
            /\ socket' = IF isSubMinute' THEN "aggTrade" ELSE "kline"
            /\ UNCHANGED logged
    /\ UNCHANGED <<streamVars, batchVars, resampleVars, candleEvent, parseVars,
                   sampleVars, hookVars, frameVars, alertVars>>

\* The answer to a request of a run that has ended arrives.
LateResponse(r, response) ==
    /\ r \in staleRequests
    /\ response \in (IF r.kind = "aggTrades" THEN AggTradesResponses ELSE KlinesResponses)
    /\ staleRequests' = staleRequests \ {r}
    /\ IF response.kind = "array" /\ Active(r.run, candleRun)
       THEN /\ candles' = IF r.kind = "aggTrades"
                          THEN aggregateTrades(response.items, r.size)
                          ELSE response.items
            /\ candleEvent' = [kind |-> "written", run |-> r.run, during |-> candleRun]
       ELSE /\ UNCHANGED candles
            /\ candleEvent' = [kind |-> IF response.kind = "array" THEN "discarded"
                                        ELSE "ignored",
                               run |-> r.run, during |-> candleRun]
    /\ UNCHANGED <<isSubMinute, bucketSize, previous, trade, kline, lastOp, runStart,
                   delivered, batchVars, resampleVars, candleInterval, request, socket,
                   logged, candleRun, parseVars, sampleVars, hookVars, frameVars, alertVars>>

\* The request of a run that has ended rejects: the catch logs it.
LateFailure(r) ==
    /\ r \in staleRequests
    /\ staleRequests' = staleRequests \ {r}
    /\ logged' = Append(logged, "network")
    /\ candleEvent' = [kind |-> "failed", run |-> r.run, during |-> candleRun]
    /\ UNCHANGED <<isSubMinute, bucketSize, streamVars, batchVars, resampleVars,
                   candleInterval, request, socket, candleRun, parseVars, sampleVars,
                   hookVars, frameVars, alertVars>>

NextCandles ==
    \/ CandlesEffects
    \/ \E response \in AggTradesResponses \cup KlinesResponses : InitialDataLoaded(response)
    \/ InitialDataFailed
    \/ \E t \in StreamTrades : TradeMessage(t)
    \/ \E k \in StreamKlines : KlineMessage(k)
    \/ \E next \in CandleIntervals : ChangeInterval(next)
    \/ \E r \in staleRequests : \E response \in AggTradesResponses \cup KlinesResponses :
          LateResponse(r, response)
    \/ \E r \in staleRequests : LateFailure(r)

SpecCandles == InitCandles /\ [][NextCandles]_vars

(***************************************************************************)
(* The transforms on arrays held by reference.  heap is the sequence of    *)
(* the arrays there are, a reference is an index into it.  Each statement  *)
(* of a transform that makes an array ([...list], filter, slice, map,      *)
(* Array.from, []) appends one to the heap; sort, push and an assignment   *)
(* to a slot change the array they are applied to, whoever else holds it.  *)
(* No statement of the transforms assigns to a field of an element, so the *)
(* elements are values.                                                    *)
(***************************************************************************)
\* How many elements the input of a transform call has.
MaxInput == 2

\* next = previous in place of [...previous]: no copy is made.
SpreadAlias(h, source) == [heap |-> h, ref |-> source]

\* [...source]
Spread(h, source) == [heap |-> Append(h, h[source]), ref |-> Len(h) + 1]

\* const list = items (a new array with these elements)
Alloc(h, items) == [heap |-> Append(h, items), ref |-> Len(h) + 1]

\* array.sort((a, b) => a.time - b.time)
SortInPlace(h, ref) == [h EXCEPT ![ref] = SortByTime(@)]

\* array.push(item)
Push(h, ref, item) == [h EXCEPT ![ref] = Append(@, item)]

\* array[index] = item
SetAt(h, ref, index, item) == [h EXCEPT ![ref][index] = item]

\* mergeTradeIntoCandles(previous, trade, bucketSize)
HeapMergeTrade(h, prevRef, t, size) ==
    IF ~ValidTrade(t) THEN [heap |-> h, ref |-> prevRef]
    ELSE LET bucketTime == BucketTime(t.time, size)
             copy == Spread(h, prevRef)
             next == copy.ref
             index == FindIndex(copy.heap[next], bucketTime)
             filled == IF index > 0
                       THEN SetAt(copy.heap, next, index,
                                  UpdatedCandle(copy.heap[next][index], t, bucketTime))
                       ELSE Push(copy.heap, next, NewCandle(t, bucketTime))
             sorted == SortInPlace(filled, next)
         IN Alloc(sorted, SliceLast(sorted[next], MAX_LENGTH))

\* aggregateTrades(trades, bucketSize): forEach reads trades and fills the
\* Map; Array.from(map.values()), sort, slice.
HeapAggregateTrades(h, tradesRef, size) ==
    LET values == Alloc(h, AggregateMap(h[tradesRef], size))
        sorted == SortInPlace(values.heap, values.ref)
    IN Alloc(sorted, SliceLast(sorted[values.ref], MAX_LENGTH))

\* The kline reducer: prev.filter(...), list.push(candle), list.sort(...),
\* slice.
HeapKlineReducer(h, prevRef, candle) ==
    LET list == Alloc(h, SelectSeq(h[prevRef], LAMBDA item : item.time # candle.time))
        pushed == Push(list.heap, list.ref, candle)
        sorted == SortInPlace(pushed, list.ref)
    IN Alloc(sorted, SliceLast(sorted[list.ref], MAX_LENGTH))

\* resampleSeries(series, targetIntervalMs, interpolate): the early return
\* [...series]; else sorted = [...series].sort(...), the loop pushing
\* {...current} and the interpolated points to result, result.sort(...).
HeapResampleSeries(h, seriesRef, target, kind) ==
    IF h[seriesRef] = <<>> \/ ~IsFinite(target) \/ target <= 0 THEN Spread(h, seriesRef)
    ELSE LET copy == Spread(h, seriesRef)
             sorted == SortInPlace(copy.heap, copy.ref)
             result == Alloc(sorted, ResampleFrom(kind, sorted[copy.ref], target, 1))
         IN [heap |-> SortInPlace(result.heap, result.ref), ref |-> result.ref]

\* The callback of resampled.map(...) of the resampler of each shape.
Remapped(kind, item) ==
    CASE kind = "level" ->
           [time |-> item.time, openInterest |-> item.openInterest,
            openInterestValue |-> item.openInterestValue]
      [] kind = "ratio" ->
           [time |-> item.time, long |-> item.long, short |-> item.short,
            ratio |-> IF item.short = 0 THEN 0
                      ELSE toFixed3Quotient(item.long, item.short)]
      [] kind = "volume" ->
           [time |-> item.time, buyVolume |-> item.buyVolume,
            sellVolume |-> item.sellVolume,
            ratio |-> IF item.sellVolume = 0 THEN 0
                      ELSE toFixed3Quotient(item.buyVolume, item.sellVolume)]
      [] kind = "basis" ->
           [time |-> item.time, markPrice |-> item.markPrice,
            indexPrice |-> item.indexPrice,
            basis |-> toFixed2(item.markPrice - item.indexPrice)]

\* resampleOpenInterestSeries, resampleLongShortSeries,
\* resampleTakerVolumeSeries, resampleBasisSeries: resampleSeries, then map.
HeapResampleShape(h, seriesRef, target, kind) ==
    LET resampledOnHeap == HeapResampleSeries(h, seriesRef, target, kind)
        out == resampledOnHeap.heap[resampledOnHeap.ref]
    IN Alloc(resampledOnHeap.heap, [i \in 1..Len(out) |-> Remapped(kind, out[i])])

\* computeDelta(series): result = [], one push per point of series.
HeapComputeDelta(h, seriesRef) == Alloc(h, computeDelta(h[seriesRef]))

\* The candles an input of mergeTradeIntoCandles or of the kline reducer
\* is made of.
FrameCandles ==
    {[time |-> t, open |-> 1, high |-> 2, low |-> 1, close |-> 2, volume |-> 10] :
        t \in {0, 2, 4}}

\* Trades whose quantity is finite and below zero: both aggregators' checks
\* let them through.
NegativeTrades ==
    {[price |-> 1, quantity |-> -10, time |-> t] : t \in {0, 2}}

\* Trades of four buckets, for batches of more buckets than the window
\* holds.
SpreadTrades ==
    {[price |-> 1, quantity |-> 10, time |-> t] : t \in {0, 2, 4, 6}}

Transforms == {"mergeTrade", "aggregateTrades", "klineReducer", "resample", "computeDelta"}

\* One call of one transform is about to be made: its input array is the
\* only array there is, in any order of its elements.
InitFrame ==
    /\ transform \in Transforms
    /\ \/ /\ transform = "mergeTrade"
          /\ inputBefore \in SeqsUpTo(FrameCandles, MaxInput)
          /\ trade \in Trades \cup NegativeTrades
          /\ bucketSize \in BucketSizes
          /\ kline = NoKline
          /\ shape = "level"
          /\ targetIntervalMs = 0
       \/ /\ transform = "aggregateTrades"
          /\ inputBefore \in SeqsUpTo(BatchTrades \cup NegativeTrades, MaxInput)
                              \cup SeqsUpTo(SpreadTrades, MaxInput + 1)
          /\ trade = NoTrade
          /\ bucketSize \in BucketSizes
          /\ kline = NoKline
          /\ shape = "level"
          /\ targetIntervalMs = 0
       \/ /\ transform = "klineReducer"
          /\ inputBefore \in SeqsUpTo(FrameCandles, MaxInput)
          /\ trade = NoTrade
          /\ bucketSize = 2
          /\ kline \in {k \in Klines : IsFinite(k.open) /\ IsFinite(k.close)}
          /\ shape = "level"
          /\ targetIntervalMs = 0
       \/ /\ transform = "resample"
          /\ shape \in Shapes
          /\ inputBefore \in SeqsUpTo(PointsOf(shape), MaxInput)
          /\ targetIntervalMs \in Targets
          /\ trade = NoTrade
          /\ bucketSize = 2
          /\ kline = NoKline
       \/ /\ transform = "computeDelta"
          /\ inputBefore \in SeqsUpTo(LevelPoints, MaxInput)
          /\ trade = NoTrade
          /\ bucketSize = 2
          /\ kline = NoKline
          /\ shape = "level"
          /\ targetIntervalMs = 0
    /\ heap = <<inputBefore>>
    /\ inputRef = 1
    /\ resultRef = 0
    /\ framePc = "start"
    /\ isSubMinute = TRUE
    /\ candles = <<>>
    /\ previous = <<>>
    /\ lastOp = "init"
    /\ runStart = <<>>
    /\ delivered = 0
    /\ BatchIdle
    /\ series = <<>>
    /\ resampled = <<>>
    /\ delta = <<>>
    /\ resamplePc = "idle"
    /\ ParseIdle
    /\ SampleIdle
    /\ HookIdle
    /\ MountIdle
    /\ AlertIdle

\* The call returns: the heap is what its statements left, resultRef what
\* it returned.
Returned(done) ==
    /\ framePc = "start"
    /\ heap' = done.heap
    /\ resultRef' = done.ref
    /\ framePc' = "done"
    /\ UNCHANGED <<coreVars, parseVars, sampleVars, hookVars, mountVars, alertVars, transform,
                   inputRef, inputBefore>>

CallMergeTrade ==
    /\ transform = "mergeTrade"
    /\ Returned(HeapMergeTrade(heap, inputRef, trade, bucketSize))

CallAggregateTrades ==
    /\ transform = "aggregateTrades"
    /\ Returned(HeapAggregateTrades(heap, inputRef, bucketSize))

CallKlineReducer ==
    /\ transform = "klineReducer"
    /\ Returned(HeapKlineReducer(heap, inputRef, kline))

CallResample ==
    /\ transform = "resample"
    /\ Returned(HeapResampleShape(heap, inputRef, targetIntervalMs, shape))

CallComputeDelta ==
    /\ transform = "computeDelta"
    /\ Returned(HeapComputeDelta(heap, inputRef))

NextFrame ==
    \/ CallMergeTrade
    \/ CallAggregateTrades
    \/ CallKlineReducer
    \/ CallResample
    \/ CallComputeDelta

SpecFrame == InitFrame /\ [][NextFrame]_vars

(***************************************************************************)
(* Properties of the stream handlers.                                      *)
(***************************************************************************)
Ascending(list) == \A i \in 1..(Len(list) - 1) : list[i].time < list[i + 1].time

UniqueTimes(list) ==
    \A i, j \in 1..Len(list) : list[i].time = list[j].time => i = j

\* No field of the trade is a non-finite number.
AllFinite(t) == t.price # NaN /\ t.quantity # NaN /\ t.time # NaN

TradeBucket == (trade.time \div bucketSize) * bucketSize

\* C1: folding mergeTradeIntoCandles from the empty series over trades in any
\* arrival order, every series is strictly ascending by time, has at most one
\* candle per bucket start and at most MAX_LENGTH candles.
C1_MergeSortedUniqueBounded ==
    isSubMinute =>
        /\ Ascending(candles)
        /\ UniqueTimes(candles)
        /\ Len(candles) <= MAX_LENGTH

\* C1 witness: a trade older than the newest candle opened a new bucket in a
\* full window, and the oldest candle was dropped.
C1_Witness ==
    /\ lastOp = "trade"
    /\ AllFinite(trade)
    /\ Len(previous) = MAX_LENGTH
    /\ FindIndex(previous, TradeBucket) = 0
    /\ TradeBucket < previous[Len(previous)].time
    /\ FindIndex(candles, TradeBucket) > 0
    /\ candles[1].time # previous[1].time

\* C3 as stated: after the same valid trade was merged twice in a row, its
\* bucket is in the series and holds the volume after the first merge plus
\* the quantity, rounded to 6 decimals.
C3_Original ==
    (lastOp = "replay" /\ AllFinite(trade)) =>
        LET i == FindIndex(candles, TradeBucket)
            j == FindIndex(previous, TradeBucket)
        IN /\ i > 0
           /\ j > 0
           /\ candles[i].volume = toFixed6(previous[j].volume + trade.quantity)

\* C3 amended: the same, for a trade whose bucket the first merge kept; a
\* trade whose new bucket the first merge truncated away (older than every
\* candle of a full window) is truncated away again, the series unchanged.
C3_ReplayAccumulates ==
    (lastOp = "replay" /\ AllFinite(trade)) =>
        LET i == FindIndex(candles, TradeBucket)
            j == FindIndex(previous, TradeBucket)
        IN IF j > 0
           THEN /\ i > 0
                /\ candles[i].volume = toFixed6(previous[j].volume + trade.quantity)
           ELSE /\ candles = previous
                /\ Len(previous) = MAX_LENGTH
                /\ TradeBucket < previous[1].time

\* C3 witness: the replay raised the volume of the trade's bucket a second
\* time.
C3_Witness ==
    /\ lastOp = "replay"
    /\ AllFinite(trade)
    /\ FindIndex(previous, TradeBucket) > 0
    /\ FindIndex(candles, TradeBucket) > 0
    /\ candles[FindIndex(candles, TradeBucket)].volume
         > previous[FindIndex(previous, TradeBucket)].volume
    /\ previous[FindIndex(previous, TradeBucket)].volume > 0

C2_BatchSortedUniqueBounded ==
    batchPc = "done" =>
        /\ Ascending(aggregated)
        /\ UniqueTimes(aggregated)
        /\ Len(aggregated) <= MAX_LENGTH

\* C2 witness: the trades opened more than MAX_LENGTH buckets, out of time
\* order.
C2_Witness ==
    /\ batchPc = "done"
    /\ Len(AggregateMap(batch, bucketSize)) > MAX_LENGTH
    /\ ~Ascending(AggregateMap(batch, bucketSize))
    /\ Len(aggregated) = MAX_LENGTH

\* The list without its i-th element.
RemoveAt(list, i) == SubSeq(list, 1, i - 1) \o SubSeq(list, i + 1, Len(list))

\* C4: a trade with a non-finite price, quantity or time is never partially
\* applied: mergeTradeIntoCandles returns the series it was given, and
\* aggregateTrades returns what it returns for the batch without that trade.
C4_InvalidTradeIgnored ==
    /\ (pos > 0 /\ ~AllFinite(batch[pos])) => merged = mergedPrev
    /\ batchPc = "done" =>
          \A i \in 1..Len(batch) :
              ~AllFinite(batch[i]) =>
                  aggregated = aggregateTrades(RemoveAt(batch, i), bucketSize)

\* C4 witness: an invalid trade arrived between two valid ones, and the fold
\* has just consumed it.
C4_Witness ==
    /\ batchPc = "done"
    /\ Len(batch) = 3
    /\ pos = 2
    /\ AllFinite(batch[1])
    /\ ~AllFinite(batch[2])
    /\ AllFinite(batch[3])
    /\ Len(merged) = 1
    /\ Len(aggregated) >= 1

\* The valid trades of the batch that fall in the bucket starting at b, in
\* processing order.
TradesOfBucket(b) ==
    SelectSeq(batch, LAMBDA t : AllFinite(t) /\ (t.time \div bucketSize) * bucketSize = b)

RECURSIVE RunningVolume(_)
RunningVolume(ts) ==
    IF ts = <<>> THEN 0
    ELSE LET sum == RunningVolume(SubSeq(ts, 1, Len(ts) - 1)) + ts[Len(ts)].quantity
         IN IF sum >= 0 THEN ((sum + 5) \div 10) * 10 ELSE -(((5 - sum) \div 10) * 10)

RECURSIVE PlainVolume(_)
PlainVolume(ts) ==
    IF ts = <<>> THEN 0 ELSE PlainVolume(SubSeq(ts, 1, Len(ts) - 1)) + ts[Len(ts)].quantity

\* C5: every candle aggregateTrades returns summarises the valid trades of
\* its bucket in processing order: open is the first price, close the last,
\* high the greatest, low the least, and volume the sum of the quantities
\* rounded to 6 decimals after every addition.
C5_BatchOhlcv ==
    batchPc = "done" =>
        \A k \in 1..Len(aggregated) :
            LET bar == aggregated[k]
                ts == TradesOfBucket(bar.time)
            IN /\ ts # <<>>
               /\ bar.open = ts[1].price
               /\ bar.close = ts[Len(ts)].price
               /\ \A i \in 1..Len(ts) : bar.low <= ts[i].price /\ ts[i].price <= bar.high
               /\ \E i \in 1..Len(ts) : bar.high = ts[i].price
               /\ \E i \in 1..Len(ts) : bar.low = ts[i].price
               /\ bar.volume = RunningVolume(ts)

\* C5 witness: a bucket of three trades whose extreme price is the middle
\* one, and whose volume differs from the sum rounded once at the end.
C5_Witness ==
    /\ batchPc = "done"
    /\ \E k \in 1..Len(aggregated) :
          LET bar == aggregated[k]
              ts == TradesOfBucket(bar.time)
          IN /\ Len(ts) = 3
             /\ bar.open = bar.close
             /\ bar.high > bar.close
             /\ bar.volume # PlainVolume(ts)
             /\ bar.volume + 5 <= PlainVolume(ts)

\* C6: the scenario batch yields exactly the candles {0, 100, 105, 100, 105, 3}
\* and {60000, 95, 95, 95, 95, 1}.
C6_Scenario ==
    (batchPc = "done" /\ batch = ScenarioTrades /\ bucketSize = 60000) =>
        aggregated =
            <<[time |-> 0, open |-> 100, high |-> 105, low |-> 100, close |-> 105,
               volume |-> Whole(3)],
              [time |-> 60000, open |-> 95, high |-> 95, low |-> 95, close |-> 95,
               volume |-> Whole(1)]>>

\* C6 witness: the scenario batch has been aggregated.
C6_Witness ==
    /\ batchPc = "done"
    /\ batch = ScenarioTrades
    /\ bucketSize = 60000
    /\ Len(aggregated) = 2

(***************************************************************************)
(* Properties of the resamplers.                                           *)
(***************************************************************************)
ValidTarget == IsFinite(targetIntervalMs) /\ targetIntervalMs > 0

GapsWithinTarget ==
    \A i \in 1..(Len(series) - 1) : series[i + 1].time - series[i].time <= targetIntervalMs

NonDescending(list) == \A i \in 1..(Len(list) - 1) : list[i].time <= list[i + 1].time

\* The two primitive fields of a point.
Primitives(p) ==
    CASE shape = "level" -> <<p.openInterest, p.openInterestValue>>
      [] shape = "ratio" -> <<p.long, p.short>>
      [] shape = "volume" -> <<p.buyVolume, p.sellVolume>>
      [] shape = "basis" -> <<p.markPrice, p.indexPrice>>

\* r, in units of 10^-4, is a / b rounded to 3 decimals.
IsQuotientTo3(r, a, b) ==
    /\ r % 10 = 0
    /\ 2 * Abs(r * b - 10000 * a) <= 10 * Abs(b)

\* d is x rounded to whole cents.
IsRoundedTo2(d, x) ==
    /\ d % Cent = 0
    /\ 2 * Abs(d - x) <= Cent

\* The derived field of p is its defining formula on p's primitive fields,
\* rounded as the resamplers round it.
DerivedRounded(p) ==
    CASE shape = "level" -> TRUE
      [] shape = "ratio" ->
           IF p.short = 0 THEN p.ratio = 0 ELSE IsQuotientTo3(p.ratio, p.long, p.short)
      [] shape = "volume" ->
           IF p.sellVolume = 0 THEN p.ratio = 0
           ELSE IsQuotientTo3(p.ratio, p.buyVolume, p.sellVolume)
      [] shape = "basis" -> IsRoundedTo2(p.basis, p.markPrice - p.indexPrice)

\* The derived field of p is exactly its defining formula.
DerivedExact(p) ==
    CASE shape = "level" -> TRUE
      [] shape = "ratio" ->
           IF p.short = 0 THEN p.ratio = 0 ELSE p.ratio * p.short = 10000 * p.long
      [] shape = "volume" ->
           IF p.sellVolume = 0 THEN p.ratio = 0
           ELSE p.ratio * p.sellVolume = 10000 * p.buyVolume
      [] shape = "basis" -> p.basis = p.markPrice - p.indexPrice

\* C8 as stated: a series whose consecutive gaps are all <= the target
\* interval is returned equal to the input, point for point and field for
\* field, by every resampler.
C8_Original ==
    (resamplePc = "done" /\ ValidTarget /\ GapsWithinTarget) => resampled = series

\* C8 amended: for such a series given in ascending time order, the output
\* has the same points in the same order with the same time and primitive
\* fields, and the derived field recomputed and rounded (ratio to 3
\* decimals, basis to 2); it equals the input for level series and for
\* long/short series, and for taker-volume and basis series exactly when
\* the input's derived field already is the rounded value.
C8_IdentityUpToDerived ==
    (resamplePc = "done" /\ ValidTarget /\ GapsWithinTarget /\ NonDescending(series)) =>
        /\ Len(resampled) = Len(series)
        /\ \A i \in 1..Len(series) :
              /\ resampled[i].time = series[i].time
              /\ Primitives(resampled[i]) = Primitives(series[i])
              /\ DerivedRounded(resampled[i])
        /\ shape \in {"level", "ratio"} => resampled = series
        /\ shape = "basis" =>
              (resampled = series <=>
                  \A i \in 1..Len(series) : series[i].basis % Cent = 0)
        /\ shape = "volume" =>
              ((\A i \in 1..Len(series) : DerivedRounded(series[i]) /\ series[i].ratio % 10 = 0)
                  => resampled = series)

\* C8 witness: a series resampled to its own native interval (every gap is
\* the target interval) came back with every time and primitive field
\* unchanged.
C8_Witness ==
    /\ resamplePc = "done"
    /\ ValidTarget
    /\ Len(series) = 3
    /\ \A i \in 1..2 : series[i + 1].time - series[i].time = targetIntervalMs
    /\ Len(resampled) = 3
    /\ \A i \in 1..3 : Primitives(resampled[i]) = Primitives(series[i])
    /\ series[1] # series[2]

\* C9 as stated: at every point of a resampled series the derived field is
\* exactly long / short, buyVolume / sellVolume (0 for a zero denominator)
\* or markPrice - indexPrice of that point.
C9_Original ==
    resamplePc = "done" => \A k \in 1..Len(resampled) : DerivedExact(resampled[k])

\* C9 amended: at every point, original or inserted, the derived field is
\* that formula on the point's own primitive fields rounded to 3 decimals
\* (ratio; 0 for a zero denominator) or to 2 decimals (basis).
C9_DerivedRecomputed ==
    resamplePc = "done" => \A k \in 1..Len(resampled) : DerivedRounded(resampled[k])

\* C9 witness: a taker-volume series got an inserted point, and a point
\* whose ratio is the rounded, not the exact, quotient.
C9_Witness ==
    /\ resamplePc = "done"
    /\ shape = "volume"
    /\ Len(resampled) > Len(series)
    /\ \E k \in 1..Len(resampled) :
          /\ \A i \in 1..Len(series) : series[i].time # resampled[k].time
          /\ resampled[k].sellVolume # 0
          /\ ~DerivedExact(resampled[k])
          /\ DerivedRounded(resampled[k])

\* How many points lie strictly inside a gap of the given span.
ExpectedInserts(span) ==
    IF span > targetIntervalMs THEN (span \div targetIntervalMs) - 1 ELSE 0

RECURSIVE TotalInserts(_, _)
TotalInserts(sorted, i) ==
    IF i >= Len(sorted) THEN 0
    ELSE ExpectedInserts(sorted[i + 1].time - sorted[i].time) + TotalInserts(sorted, i + 1)

\* C10: the scenario series yields (0, 0), (60, 6), (120, 12); and for every
\* consecutive pair of the time-ordered input whose gap exceeds the target
\* interval, the output holds, for each step below floor(gap / target), a
\* point at current.time + step * target whose primitive fields are
\* current + (next - current) * (step * target / gap), and no other point
\* is added.
C10_LinearInterpolation ==
    resamplePc = "done" =>
        /\ (series = ScenarioSeries /\ targetIntervalMs = 60) =>
              resampled =
                  <<[time |-> 0, openInterest |-> 0, openInterestValue |-> 0],
                    [time |-> 60, openInterest |-> 6 * Grid, openInterestValue |-> 0],
                    [time |-> 120, openInterest |-> 12 * Grid, openInterestValue |-> 0]>>
        /\ ValidTarget =>
              LET sorted == SortByTime(series)
              IN /\ Len(resampled) = Len(series) + TotalInserts(sorted, 1)
                 /\ \A i \in 1..(Len(sorted) - 1) :
                       LET current == sorted[i]
                           next == sorted[i + 1]
                           gap == next.time - current.time
                       IN \A step \in 1..ExpectedInserts(gap) :
                             \E k \in 1..Len(resampled) :
                                 /\ resampled[k].time = current.time + step * targetIntervalMs
                                 /\ \A f \in 1..2 :
                                       (Primitives(resampled[k])[f] - Primitives(current)[f]) * gap
                                         = (Primitives(next)[f] - Primitives(current)[f])
                                             * step * targetIntervalMs

\* C10 witness: the scenario series has been resampled to three points.
C10_Witness ==
    /\ resamplePc = "done"
    /\ series = ScenarioSeries
    /\ targetIntervalMs = 60
    /\ Len(resampled) = 3

\* C11: every resampler returns the empty series for the empty series,
\* whatever the target interval; and for a target interval that is not
\* finite, zero or negative resampleSeries returns the points it was given in
\* the order it was given them (nothing sorted, nothing inserted), so that
\* the resampler's output has the input's length and, position by position,
\* its time and primitive fields.
C11_EdgeCases ==
    resamplePc = "done" =>
        /\ series = <<>> => resampled = <<>>
        /\ ~ValidTarget =>
              /\ resampleSeries(series, targetIntervalMs, shape) = series
              /\ Len(resampled) = Len(series)
              /\ \A i \in 1..Len(series) :
                    /\ resampled[i].time = series[i].time
                    /\ Primitives(resampled[i]) = Primitives(series[i])

\* C11 witness: a series given in descending time order, with a gap of more
\* than one, came back in that order from a resampler called with a negative
\* target interval.
C11_Witness ==
    /\ resamplePc = "done"
    /\ targetIntervalMs < 0
    /\ IsFinite(targetIntervalMs)
    /\ Len(series) = 3
    /\ series[1].time > series[2].time + 1
    /\ series[2].time > series[3].time
    /\ Len(resampled) = 3
    /\ \A i \in 1..3 : resampled[i].time = series[i].time

RECURSIVE SumOf(_, _)
SumOf(list, field) ==
    IF list = <<>> THEN 0
    ELSE SumOf(SubSeq(list, 1, Len(list) - 1), field) + list[Len(list)][field]

\* C12: computeDelta returns one point per level point, with the same time;
\* the first has increase = 0 and decrease = 0; and for a series of two or
\* more points the increases and the decreases together sum to the last
\* level minus the first.
C12_DeltaTelescopes ==
    resamplePc = "delta" =>
        /\ Len(delta) = Len(resampled)
        /\ \A i \in 1..Len(delta) : delta[i].time = resampled[i].time
        /\ Len(delta) >= 1 => delta[1].increase = 0 /\ delta[1].decrease = 0
        /\ Len(delta) >= 2 =>
              SumOf(delta, "increase") + SumOf(delta, "decrease")
                = resampled[Len(resampled)].openInterest - resampled[1].openInterest

\* C12 witness: a level series that rises and then falls below where it
\* started.
C12_Witness ==
    /\ resamplePc = "delta"
    /\ Len(delta) >= 3
    /\ \E i \in 2..Len(delta) : delta[i].increase > 0
    /\ \E i \in 2..Len(delta) : delta[i].decrease < 0
    /\ resampled[Len(resampled)].openInterest < resampled[1].openInterest

(***************************************************************************)
(* Properties of the interval parsers.                                     *)
(***************************************************************************)
\* The decimal numeral the first n characters of text spell, -1 if they are
\* not all decimal digits or n = 0.
RECURSIVE Numeral(_, _)
Numeral(str, n) ==
    IF n = 0 THEN -1
    ELSE LET c == str[n]
             d == CASE c = "0" -> 0 [] c = "1" -> 1 [] c = "2" -> 2 [] c = "3" -> 3
                    [] c = "4" -> 4 [] c = "5" -> 5 [] c = "6" -> 6 [] c = "7" -> 7
                    [] c = "8" -> 8 [] c = "9" -> 9 [] OTHER -> -1
             rest == IF n = 1 THEN 0 ELSE Numeral(str, n - 1)
         IN IF d < 0 \/ rest < 0 THEN -1 ELSE 10 * rest + d

\* The duration text spells with a unit among units: n * unitMs if text is a
\* positive decimal integer n followed by one unit character, -1 (failure)
\* for every other string.
Spelled(units) ==
    LET n == IF text = <<>> THEN -1 ELSE Numeral(text, Len(text) - 1)
        u == IF text = <<>> THEN " " ELSE text[Len(text)]
    IN IF n <= 0 \/ u \notin units THEN -1
       ELSE n * (CASE u = "s" -> 1000 [] u = "m" -> 60000 [] u = "h" -> 3600000
                   [] u = "d" -> 86400000)

\* C15 as stated: both parsers return n * unitMs for <positive integer n><unit>
\* with a unit among s, m, h, d, and report failure for every other string.
C15_Original ==
    parsePc = "done" =>
        /\ intervalMs = Spelled({"s", "m", "h", "d"})
        /\ periodMs = Spelled({"s", "m", "h", "d"})

\* C15 amended: parseIntervalToMs does so; parsePeriodToMs does so with the
\* units m, h, d only, and reports failure for a seconds unit as for every
\* other string.
C15_ParsersByUnit ==
    /\ parsePc \in {"interval", "done"} => intervalMs = Spelled({"s", "m", "h", "d"})
    /\ parsePc = "done" => periodMs = Spelled({"m", "h", "d"})

\* C15 witness: a two-digit amount of seconds went through both parsers.
C15_Witness ==
    /\ parsePc = "done"
    /\ text = <<"1", "2", "s">>
    /\ intervalMs = 12000
    /\ periodMs = Null

(***************************************************************************)
(* Properties of the sample generator.                                     *)
(***************************************************************************)
\* The point p moved in time by d.
Shifted(p, d) == [p EXCEPT !.time = @ + d]

\* C14: two calls of createSampleAnalytics with the same symbol, limit and
\* interval return the same bundle when the clock reads the same, and
\* otherwise bundles of the same lengths whose points differ in nothing but
\* their times, each by exactly the difference of the two clock readings.
C14_AnchorShiftsTimesOnly ==
    samplePc = "done" =>
        /\ call.nowA = call.nowB => bundleA = bundleB
        /\ \A name \in SeriesNames :
              /\ Len(bundleB[name]) = Len(bundleA[name])
              /\ \A k \in 1..Len(bundleA[name]) :
                    bundleB[name][k] = Shifted(bundleA[name][k], call.nowB - call.nowA)

\* C14 witness: two calls two hours apart returned two points per series,
\* and the two points of the level series differ in value.
C14_Witness ==
    /\ samplePc = "done"
    /\ call.nowB - call.nowA = 7200000
    /\ call.intervalMs = 3600000
    /\ Len(bundleA.openInterest) = 2
    /\ bundleA.openInterest[1].openInterest # bundleA.openInterest[2].openInterest
    /\ bundleB.openInterest[1].time = bundleA.openInterest[1].time + 7200000
    /\ bundleA.takerVolume[1].ratio # bundleA.takerVolume[2].ratio

(***************************************************************************)
(* Properties of useFuturesAnalytics.                                      *)
(***************************************************************************)
\* deltas is what DeltaComputer yields for levels: one point per level
\* point, at its time, (0, 0) first and then the signed difference to the
\* predecessor, in increase if positive and in decrease if negative.
IsDeltaOf(deltas, levels) ==
    /\ Len(deltas) = Len(levels)
    /\ \A i \in 1..Len(levels) :
          /\ deltas[i].time = levels[i].time
          /\ deltas[i].increase >= 0
          /\ deltas[i].decrease <= 0
          /\ deltas[i].increase = 0 \/ deltas[i].decrease = 0
          /\ deltas[i].increase + deltas[i].decrease
                = IF i = 1 THEN 0 ELSE levels[i].openInterest - levels[i - 1].openInterest

\* C13: in every bundle the hook holds (the sample of the first render and
\* of a starting load, the fallback of a failed load, the decoded bundle,
\* the resampled bundle) openInterestDelta is DeltaComputer applied to that
\* bundle's openInterest; so a resampled bundle has one delta point per
\* resampled level point.
C13_DeltaOfPublishedLevels ==
    IsDeltaOf(state.data.openInterestDelta, state.data.openInterest)

\* C13 witness: a load for the period 1m resolved; the bundle was resampled
\* from 5m, and a level point inserted by the resampler has a delta point
\* with a rise.
C13_Witness ==
    /\ event.kind = "success"
    /\ hookPeriod = <<"1", "m">>
    /\ ~state.usingSample
    /\ Len(state.data.openInterest) = 6
    /\ Len(state.data.openInterestDelta) = 6
    /\ state.data.openInterest[2].time = 60000
    /\ state.data.openInterestDelta[2].increase > 0

(***************************************************************************)
(* Properties of the mount.                                                *)
(***************************************************************************)
\* The times of list are step apart.
Spaced(list, step) == \A i \in 1..(Len(list) - 1) : list[i + 1].time - list[i].time = step

IsSynthetic(data) ==
    \E now \in HookNows :
        data = createSampleAnalytics(hookSymbol, LIMIT,
                                      IF parsePeriodToMs(hookPeriod) = Null
                                      THEN DEFAULT_SAMPLE_INTERVAL_MS
                                      ELSE parsePeriodToMs(hookPeriod), now)

\* The load() call started last is still awaiting its requests.
LatestInFlight == \E l \in loads : l.id = started /\ l.effect = effect

IsLive(data) ==
    \E response \in ResponsesFor(RemoteMs(hookPeriod)) :
        /\ RejectedBy(response) = "none"
        /\ data = FinalData(response, hookPeriod)

C19_DataErrorFallsBack ==
    /\ event.kind = "failure" /\ event.cause = "object" =>
          state.usingSample /\ IsSynthetic(state.data)
    /\ ~state.usingSample => \A name \in SeriesNames : state.data[name] # <<>>

(***************************************************************************)
(* Properties of the transforms on the heap.                               *)
(***************************************************************************)
\* What the transform called yields for the input as it was, computed on
\* values.
ValueOfCall ==
    CASE transform = "mergeTrade" -> mergeTradeIntoCandles(inputBefore, trade, bucketSize)
      [] transform = "aggregateTrades" -> aggregateTrades(inputBefore, bucketSize)
      [] transform = "klineReducer" -> KlineReducer(inputBefore, kline)
      [] transform = "resample" ->
           (CASE shape = "level" -> resampleOpenInterestSeries(inputBefore, targetIntervalMs)
              [] shape = "ratio" -> resampleLongShortSeries(inputBefore, targetIntervalMs)
              [] shape = "volume" -> resampleTakerVolumeSeries(inputBefore, targetIntervalMs)
              [] shape = "basis" -> resampleBasisSeries(inputBefore, targetIntervalMs))
      [] transform = "computeDelta" -> computeDelta(inputBefore)

\* C20: when mergeTradeIntoCandles, aggregateTrades, the kline reducer, a
\* resampler of any shape or computeDelta has returned, the array it was
\* given holds the elements it held at the call, in the same order and
\* with the same field values, sorted or not; and the array it returned
\* holds what the transform yields for that input.
C20_InputNotMutated ==
    framePc = "done" =>
        /\ Len(heap[inputRef]) = Len(inputBefore)
        /\ \A i \in 1..Len(inputBefore) : heap[inputRef][i] = inputBefore[i]
        /\ heap[resultRef] = ValueOfCall

\* C20 witness: mergeTradeIntoCandles was given the candles of time 4 and
\* of time 0, in this order, and a trade for a bucket of its own; it
\* returned another array, sorted, and the input is as it was.
C20_Witness ==
    /\ framePc = "done"
    /\ transform = "mergeTrade"
    /\ Len(inputBefore) = 2
    /\ inputBefore[1].time = 4
    /\ inputBefore[2].time = 0
    /\ trade.time = 2
    /\ bucketSize = 2
    /\ ValidTrade(trade)
    /\ resultRef # inputRef
    /\ heap[resultRef][1].time < heap[resultRef][2].time
    /\ heap[inputRef] = inputBefore

\* The volume of the candle of time b in list, NaN if there is none.
VolumeAt(list, b) ==
    IF FindIndex(list, b) = 0 THEN NaN ELSE list[FindIndex(list, b)].volume

\* The trade at position k of the batch falls in a bucket the trades before
\* it opened, and leaves that bucket's volume no smaller.
BatchStepKeepsVolume(k) ==
    LET before == AggregateMap(SubSeq(inputBefore, 1, k - 1), bucketSize)
        t == inputBefore[k]
        b == BucketTime(t.time, bucketSize)
    IN AllFinite(t) /\ FindIndex(before, b) > 0 =>
          VolumeAt(AggregateStep(before, t, bucketSize), b) >= VolumeAt(before, b)

\* C21: a trade whose three fields are finite and whose bucket the series
\* has leaves the volume of that bucket no smaller, in
\* mergeTradeIntoCandles and in every step of aggregateTrades.
C21_VolumeNeverFalls ==
    framePc = "done" =>
        /\ transform = "mergeTrade" /\ AllFinite(trade)
             /\ FindIndex(inputBefore, BucketTime(trade.time, bucketSize)) > 0
             /\ FindIndex(heap[resultRef], BucketTime(trade.time, bucketSize)) > 0 =>
                VolumeAt(heap[resultRef], BucketTime(trade.time, bucketSize))
                    >= VolumeAt(inputBefore, BucketTime(trade.time, bucketSize))
        /\ transform = "aggregateTrades" =>
                \A k \in 1..Len(inputBefore) : BatchStepKeepsVolume(k)

\* The times of the candles of list.
TimesOf(list) == {list[i].time : i \in 1..Len(list)}

\* The bucket starts the call has before it truncates: those of its input,
\* with the one of the trade or of the candle it was given.
BucketsOfCall ==
    CASE transform = "mergeTrade" ->
           TimesOf(inputBefore)
               \cup (IF AllFinite(trade) THEN {BucketTime(trade.time, bucketSize)} ELSE {})
      [] transform = "aggregateTrades" ->
           {BucketTime(inputBefore[k].time, bucketSize) :
               k \in {i \in 1..Len(inputBefore) : AllFinite(inputBefore[i])}}
      [] transform = "klineReducer" -> TimesOf(inputBefore) \cup {kline.time}

\* The n greatest elements of the set of numbers S.
Greatest(S, n) == {x \in S : Cardinality({y \in S : y > x}) < n}

\* C22: when mergeTradeIntoCandles (on a series with one candle per time),
\* aggregateTrades or the kline reducer has more than MAX_LENGTH distinct
\* bucket starts at hand, it returns MAX_LENGTH candles, ascending, whose
\* times are the MAX_LENGTH greatest of them, whatever the order of the
\* input.
C22_OldestDiscarded ==
    /\ framePc = "done"
    /\ transform \in {"mergeTrade", "aggregateTrades", "klineReducer"}
    /\ transform # "aggregateTrades" => Cardinality(TimesOf(inputBefore)) = Len(inputBefore)
    /\ Cardinality(BucketsOfCall) > MAX_LENGTH
    => /\ Len(heap[resultRef]) = MAX_LENGTH
       /\ TimesOf(heap[resultRef]) = Greatest(BucketsOfCall, MAX_LENGTH)
       /\ \A i \in 1..(MAX_LENGTH - 1) : heap[resultRef][i].time < heap[resultRef][i + 1].time

\* C22 witness: mergeTradeIntoCandles was given MAX_LENGTH candles, the
\* later one first, and a trade of a bucket older than both; the candle the
\* trade opened is the one that was discarded.
C22_Witness ==
    /\ framePc = "done"
    /\ transform = "mergeTrade"
    /\ Len(inputBefore) = MAX_LENGTH
    /\ Cardinality(TimesOf(inputBefore)) = MAX_LENGTH
    /\ inputBefore[1].time > inputBefore[2].time
    /\ AllFinite(trade)
    /\ \A i \in 1..Len(inputBefore) : BucketTime(trade.time, bucketSize) < inputBefore[i].time
    /\ TimesOf(heap[resultRef]) = TimesOf(inputBefore)
    /\ heap[resultRef] # inputBefore

(***************************************************************************)
(* Properties of useCandles.                                               *)
(***************************************************************************)
\* a < b on numbers: false as soon as one of them is NaN.
LessThan(a, b) == IsFinite(a) /\ IsFinite(b) /\ a < b

\* C23: in every state of useCandles, whatever the order in which the
\* initial load settles and the stream messages arrive, the candle series
\* is strictly ascending by time (so it has one candle per time) and has
\* at most MAX_LENGTH candles.
C23_BarInvariant ==
    /\ \A i \in 1..(Len(candles) - 1) : LessThan(candles[i].time, candles[i + 1].time)
    /\ Len(candles) <= MAX_LENGTH

(***************************************************************************)
(* Further properties of the resamplers.                                   *)
(***************************************************************************)
DistinctTimes(list) ==
    \A i, j \in 1..Len(list) : list[i].time = list[j].time => i = j

\* The output holds every point of the input, with its time and primitive
\* fields.
HoldsEveryInput ==
    \A i \in 1..Len(series) :
        \E k \in 1..Len(resampled) :
            /\ resampled[k].time = series[i].time
            /\ Primitives(resampled[k]) = Primitives(series[i])

\* Every output point whose time is no input time lies strictly between
\* two consecutive points of the time-ordered input.
InsertedBetween ==
    LET sorted == SortByTime(series)
    IN \A k \in 1..Len(resampled) :
          (\A i \in 1..Len(series) : series[i].time # resampled[k].time) =>
              \E i \in 1..(Len(sorted) - 1) :
                  /\ sorted[i].time < resampled[k].time
                  /\ resampled[k].time < sorted[i + 1].time

\* C24 as stated: for every input with pairwise distinct times, whatever
\* the target interval, the output of a resampler is strictly ascending by
\* time, holds every input point, and has its other points strictly between
\* consecutive input points.
C24_Original ==
    (resamplePc = "done" /\ DistinctTimes(series)) =>
        /\ Ascending(resampled)
        /\ HoldsEveryInput
        /\ InsertedBetween

\* C24 amended: for a target interval that is finite and > 0 and an input
\* with pairwise distinct times, the output of every resampler is strictly
\* ascending by time, begins with the earliest and ends with the latest
\* input point, holds every input point with its time and primitive
\* fields, and has every other point strictly between two consecutive
\* points of the time-ordered input.
C24_AscendingWithEveryInput ==
    (resamplePc = "done" /\ ValidTarget /\ DistinctTimes(series)) =>
        /\ Ascending(resampled)
        /\ HoldsEveryInput
        /\ InsertedBetween
        /\ series # <<>> =>
              LET sorted == SortByTime(series)
              IN /\ resampled[1].time = sorted[1].time
                 /\ resampled[Len(resampled)].time = sorted[Len(sorted)].time

\* C24 witness: three points with distinct times, given latest first, came
\* back with points inserted.
C24_Witness ==
    /\ resamplePc = "done"
    /\ ValidTarget
    /\ Len(series) = 3
    /\ DistinctTimes(series)
    /\ series[1].time > series[2].time
    /\ series[2].time > series[3].time
    /\ Len(resampled) > 3


\* The positions of the output that lie in the input pair (i, i + 1), its
\* later end left out.
InPair(i) ==
    {k \in 1..(Len(resampled) - 1) :
        /\ series[i].time <= resampled[k].time
        /\ resampled[k].time < series[i + 1].time}

\* C28: for a target interval > 0 and an input strictly ascending by time,
\* wherever an input gap exceeds the target interval every gap between
\* consecutive output points inside it is below twice the target interval,
\* and the gap from the original point to the first inserted point, and
\* from each inserted point to the next inserted one, is exactly the target
\* interval.
C28_GapsBounded ==
    (resamplePc = "done" /\ ValidTarget /\ Ascending(series)) =>
        \A i \in 1..(Len(series) - 1) :
            series[i + 1].time - series[i].time > targetIntervalMs =>
                \A k \in InPair(i) :
                    /\ resampled[k + 1].time - resampled[k].time < 2 * targetIntervalMs
                    /\ resampled[k + 1].time < series[i + 1].time =>
                          resampled[k + 1].time - resampled[k].time = targetIntervalMs

\* C28 witness: a gap of two and a half target intervals came back as a gap
\* of one target interval and a gap of one and a half.
C28_Witness ==
    /\ resamplePc = "done"
    /\ ValidTarget
    /\ Ascending(series)
    /\ Len(series) = 2
    /\ 2 * (series[2].time - series[1].time) = 5 * targetIntervalMs
    /\ Len(resampled) = 3
    /\ resampled[2].time - resampled[1].time = targetIntervalMs
    /\ resampled[3].time - resampled[2].time > targetIntervalMs


(***************************************************************************)
(* Incremental against batch aggregation.                                  *)
(***************************************************************************)
\* The bucket starts of the trades of list that both aggregators accept.
BucketsOfTrades(list) ==
    {BucketTime(list[i].time, bucketSize) : i \in {j \in 1..Len(list) : ValidTrade(list[j])}}

\* C25: once the whole batch has been folded by mergeTradeIntoCandles from
\* the empty series, in the order of the batch, the series is the one
\* aggregateTrades returned for the batch: same buckets, open, high, low,
\* close and volume.
C25_FoldEqualsBatch ==
    (batchPc = "done" /\ pos = Len(batch)) => merged = aggregated

\* C25 witness: a batch of three trades, later buckets first, of more
\* distinct buckets than the window holds, has been folded and aggregated
\* to the same MAX_LENGTH candles.
C25_Witness ==
    /\ batchPc = "done"
    /\ pos = Len(batch)
    /\ Len(batch) = 3
    /\ \A i \in 1..3 : ValidTrade(batch[i])
    /\ batch[1].time > batch[3].time
    /\ Cardinality(BucketsOfTrades(batch)) > MAX_LENGTH
    /\ Len(merged) = MAX_LENGTH
    /\ merged = aggregated


(***************************************************************************)
(* Either hook through its renders: a behaviour is one of                  *)
(* useFuturesAnalytics or one of useCandles, from the mount on, with       *)
(* renders that change the symbol, the period or the interval while        *)
(* requests are awaited.                                                   *)
(***************************************************************************)
InitRenders == InitHook \/ InitCandles

NextRenders == NextHook \/ NextCandles

SpecRenders == InitRenders /\ [][NextRenders]_vars


\* C26: a step in which a request of an earlier run of the effect settles
\* (a load() of useFuturesAnalytics started before the symbol or the period
\* changed, resolved or rejected; a klines or aggTrades request of
\* useCandles sent before the symbol or the interval changed) leaves the
\* hook's state as it was.
C26_StaleNeverWritten ==
    [][/\ (\E l \in loads : l \notin loads' /\ l.effect # effect) => state' = state
       /\ (\E r \in staleRequests : r \notin staleRequests') => candles' = candles]_vars

\* C26 witness: useFuturesAnalytics rendered with other parameters while
\* its first load() was awaited; the load() of the new run has published
\* live data, and the first one resolved after it and was discarded.
C26_Witness ==
    /\ effect = 2
    /\ loads = {}
    /\ event = [kind |-> "discarded", load |-> 1, cause |-> "none"]
    /\ ~state.loading
    /\ ~state.usingSample


\* C27: whenever a load() has just written its result, success or failure,
\* every load() started after it is still awaited: none of them has
\* completed before it, so the published bundle is that of the most
\* recently started load() that has completed.
C27_AppliedInStartOrder ==
    event.kind \in {"success", "failure"} =>
        \A id \in (event.load + 1)..started : \E l \in loads : l.id = id


\* C30: whenever useFuturesAnalytics is in the loading state, a state with
\* loading = false follows, provided that every awaited load() settles.
C30_LoadingEnds == state.loading ~> ~state.loading

\* C30 witness: after a render with other parameters every load() has
\* settled, the last one by a failure, and the hook shows the fallback with
\* loading = false.
C30_Witness ==
    /\ effect = 2
    /\ loads = {}
    /\ event.kind = "failure"
    /\ ~state.loading
    /\ state.usingSample
    /\ state.error = FetchFailed


(***************************************************************************)
(* The price alerts of the dashboard: App renders useMiniTicker and        *)
(* AlertPanel with the selected symbol; useMiniTicker holds the last       *)
(* ticker it was given, from its REST request or its stream; the trigger   *)
(* effect of AlertPanel runs after every render in which the symbol or the *)
(* ticker is another one.  A state is the dashboard after the effects of   *)
(* a render have run.                                                      *)
(***************************************************************************)
\* How many times the selected symbol changes.
MaxSwitches == 2
\* How many alerts there are in all, those of the storage included.
MaxAlerts == 2

AlertSymbols == {"BTCUSDT", "ETHUSDT"}

\* The last prices upstream reports for a symbol.
TickerPrices(sym) == IF sym = "BTCUSDT" THEN {10} ELSE {1, 7}

AlertPrices == {5}

Directions == {"above", "below"}

\* What loadStoredAlerts can return: nothing, or an alert kept for ETHUSDT.
StoredAlerts ==
    {[s \in AlertSymbols |-> <<>>],
     [s \in AlertSymbols |->
         IF s = "ETHUSDT"
         THEN <<[id |-> 1, price |-> 5, direction |-> "above", triggered |-> FALSE]>>
         ELSE <<>>]}

\* The condition of the trigger effect.
Crosses(alert, price) ==
    \/ alert.direction = "above" /\ price >= alert.price
    \/ alert.direction = "below" /\ price <= alert.price

\* The positions of list the trigger effect marks.
Firing(list, price) ==
    {i \in 1..Len(list) : ~list[i].triggered /\ Crosses(list[i], price)}

\* The setAlertsBySymbol reducer of the trigger effect.
TriggerReducer(prev, sym, price) ==
    [prev EXCEPT ![sym] =
        [i \in 1..Len(prev[sym]) |->
            IF i \in Firing(prev[sym], price)
            THEN [prev[sym][i] EXCEPT !.triggered = TRUE]
            ELSE prev[sym][i]]]

\* The trigger effect in a render with the symbol sym and the ticker held.
TriggerEffect(sym, held) ==
    IF held = NoTicker
    THEN /\ UNCHANGED alertsBySymbol
         /\ alertEvent' = [symbol |-> sym, priceOf |-> "none", fired |-> {}]
    ELSE /\ alertsBySymbol' = TriggerReducer(alertsBySymbol, sym, held.lastPrice)
         /\ alertEvent' =
               [symbol |-> sym, priceOf |-> held.symbol,
                fired |-> {alertsBySymbol[sym][i].id :
                              i \in Firing(alertsBySymbol[sym], held.lastPrice)}]

\* The dashboard after its first render and the effects of it: loadTicker
\* awaits its request, the stream is open, no ticker yet.
InitAlerts ==
    /\ selectedSymbol = "BTCUSDT"
    /\ ticker = NoTicker
    /\ tickerRequests = {[symbol |-> "BTCUSDT", active |-> TRUE]}
    /\ tickerSocket = "BTCUSDT"
    /\ alertsBySymbol \in StoredAlerts
    /\ nextAlert = Len(alertsBySymbol["ETHUSDT"])
    /\ switches = 0
    /\ received = 0
    /\ alertEvent = [symbol |-> "BTCUSDT", priceOf |-> "none", fired |-> {}]
    /\ CoreIdle
    /\ ParseIdle
    /\ SampleIdle
    /\ HookIdle
    /\ MountIdle
    /\ FrameIdle

\* loadTicker: the response of the request r arrives with a last price.
TickerLoaded(r, price) ==
    /\ r \in tickerRequests
    /\ tickerRequests' = tickerRequests \ {r}
    /\ IF r.active
       THEN /\ ticker' = [symbol |-> r.symbol, lastPrice |-> price]
            /\ TriggerEffect(selectedSymbol, ticker')
       ELSE UNCHANGED <<ticker, alertsBySymbol, alertEvent>>
    /\ UNCHANGED <<coreVars, parseVars, sampleVars, hookVars, mountVars, frameVars,
                   selectedSymbol, tickerSocket, nextAlert, switches, received>>

\* loadTicker: the response carries an error code, or the fetch throws.
TickerRefused(r) ==
    /\ r \in tickerRequests
    /\ tickerRequests' = tickerRequests \ {r}
    /\ UNCHANGED <<coreVars, parseVars, sampleVars, hookVars, mountVars, frameVars,
                   selectedSymbol, ticker, tickerSocket, alertsBySymbol, nextAlert,
                   switches, received, alertEvent>>

\* ws.onmessage of useMiniTicker: a message of the open stream.
MiniTickerMessage(price) ==
    /\ tickerSocket # "none"
    /\ received < MaxMessages
    /\ received' = received + 1
    /\ ticker' = [symbol |-> tickerSocket, lastPrice |-> price]
    /\ TriggerEffect(selectedSymbol, ticker')
    /\ UNCHANGED <<coreVars, parseVars, sampleVars, hookVars, mountVars, frameVars,
                   selectedSymbol, tickerRequests, tickerSocket, nextAlert, switches>>

\* setSelectedSymbol(sym): the cleanups of useMiniTicker (active = false,
\* the stream closed), its effects again, and the trigger effect of the
\* render, which has the new symbol and the ticker useMiniTicker still
\* holds.
SelectSymbol(sym) ==
    /\ selectedSymbol # "none"
    /\ sym # selectedSymbol
    /\ switches < MaxSwitches
    /\ switches' = switches + 1
    /\ selectedSymbol' = sym
    /\ tickerRequests' = {[r EXCEPT !.active = FALSE] : r \in tickerRequests}
                            \cup {[symbol |-> sym, active |-> TRUE]}
    /\ tickerSocket' = sym
    /\ TriggerEffect(sym, ticker)
    /\ UNCHANGED <<coreVars, parseVars, sampleVars, hookVars, mountVars, frameVars,
                   ticker, nextAlert, received>>

\* handleSubmit: an alert for the selected symbol.
HandleSubmit(price, direction) ==
    /\ selectedSymbol # "none"
    /\ nextAlert < MaxAlerts
    /\ nextAlert' = nextAlert + 1
    /\ alertsBySymbol' =
          [alertsBySymbol EXCEPT ![selectedSymbol] =
              Append(@, [id |-> nextAlert + 1, price |-> price, direction |-> direction,
                         triggered |-> FALSE])]
    /\ UNCHANGED <<coreVars, parseVars, sampleVars, hookVars, mountVars, frameVars,
                   selectedSymbol, ticker, tickerRequests, tickerSocket, switches,
                   received, alertEvent>>

\* removeAlert(id)
RemoveAlert(id) ==
    /\ selectedSymbol # "none"
    /\ \E i \in 1..Len(alertsBySymbol[selectedSymbol]) :
          alertsBySymbol[selectedSymbol][i].id = id
    /\ alertsBySymbol' =
          [alertsBySymbol EXCEPT ![selectedSymbol] =
              SelectSeq(@, LAMBDA alert : alert.id # id)]
    /\ UNCHANGED <<coreVars, parseVars, sampleVars, hookVars, mountVars, frameVars,
                   selectedSymbol, ticker, tickerRequests, tickerSocket, nextAlert,
                   switches, received, alertEvent>>

NextAlerts ==
    \/ \E r \in tickerRequests : \E price \in TickerPrices(r.symbol) : TickerLoaded(r, price)
    \/ \E r \in tickerRequests : TickerRefused(r)
    \/ \E price \in TickerPrices(tickerSocket) : MiniTickerMessage(price)
    \/ \E sym \in AlertSymbols : SelectSymbol(sym)
    \/ \E price \in AlertPrices, direction \in Directions : HandleSubmit(price, direction)
    \/ \E id \in 1..nextAlert : RemoveAlert(id)

SpecAlerts == InitAlerts /\ [][NextAlerts]_vars


(***************************************************************************)
(* Properties of the price alerts.                                         *)
(***************************************************************************)
\* An alert that is triggered stays triggered for as long as it is kept.
TriggeredStays ==
    \A s \in AlertSymbols :
        \A i \in 1..Len(alertsBySymbol[s]) :
            alertsBySymbol[s][i].triggered =>
                \A j \in 1..Len(alertsBySymbol'[s]) :
                    alertsBySymbol'[s][j].id = alertsBySymbol[s][i].id =>
                        alertsBySymbol'[s][j].triggered

\* C29: whenever the trigger effect marks alerts of a symbol, the price it
\* compared them with is a ticker price of that symbol; and an alert that
\* is triggered is never active again.
C29_TriggeredByOwnSymbol ==
    /\ [](alertEvent.fired # {} => alertEvent.priceOf = alertEvent.symbol)
    /\ [][TriggeredStays]_vars


====
